---- MODULE Spec2Model ----
(***************************************************************************)
(* Model of the streaming aggregator of codex-serve.                       *)
(*                                                                         *)
(*   SpecStream  incremental mode: build_sse_stream / forward_sse_events / *)
(*               forward_tool_call_chunk (src/src/server/mod.rs), together *)
(*               with the consumer side of the mpsc channel.               *)
(*   SpecAgg     aggregate mode: aggregate_response_stream                 *)
(*               (src/src/server/executor.rs).                             *)
(*                                                                         *)
(* Strings are sequences of bytes.  "E1","E2" are the two bytes of one     *)
(* two-byte UTF-8 character, so that byte-indexed slicing can hit the      *)
(* middle of a character, as `full_arguments[prev_len..]` can.             *)
(***************************************************************************)
EXTENDS Integers, Sequences, FiniteSets, TLC

\* ------------------------------------------------------------------ bounds

\* Number of engine events one streamed request consumes at most.
MaxEvents == 3

\* Number of engine events one aggregated request consumes at most.
AggMaxEvents == 4

\* Longest message list of a normalized request.
MaxMessages == 2

\* Longest list of tool declarations of a normalized request.
MaxTools == 2

\* Largest magnitude of a token count in a converted usage record.
MaxTokens == 2

\* Capacity of the increment channel in the model.  The source creates the
\* channel with capacity 32 (mod.rs:518); the producer's behaviour does not
\* depend on the number, only on "full or not", so the model scales it down
\* to make a full channel reachable.
ChannelCapacity == 1

\* ------------------------------------------------------------ option values

None == <<>>
Some(x) == <<x>>
IsSome(o) == o # <<>>
Unwrap(o) == o[1]

EmptyMap == [k \in {} |-> 0]
MapInsert(m, k, v) == [x \in (DOMAIN m) \cup {k} |-> IF x = k THEN v ELSE m[x]]

Last(s) == s[Len(s)]

\* str.trim().is_empty()
TrimIsEmpty(s) == \A i \in 1..Len(s) : s[i] = " "

\* --------------------------------------------------------- engine's values

\* Argument strings of tool-call items.
ArgStrings == { <<>>, <<"a">>, <<"a", "b">>, <<"b", "c">>, <<"E1", "E2">> }

\* Texts of message items.
Texts == { <<" ">>, <<"a">>, <<"b">> }

\* Texts of text deltas.
DeltaTexts == { <<" ">>, <<"a">> }

CallIds == { "c1", "c2" }

\* Result of content_items_to_text on a message item's content: absent, or
\* the joined text (possibly whitespace only).
MessageTexts == {None} \cup { Some(t) : t \in Texts }

MessageItems ==
    [type : {"Message"}, role : {"assistant", "user"}, text : MessageTexts]

ReasoningItems == { [type |-> "Reasoning"] }

FunctionCallItems ==
    [type : {"FunctionCall"}, call_id : {"c1"}, name : {"f"}, arguments : ArgStrings]
    \cup [type : {"FunctionCall"}, call_id : {"c2"}, name : {"f"},
          arguments : {<<>>, <<"a">>}]

CustomToolCallItems ==
    [type : {"CustomToolCall"}, call_id : {"c1"}, name : {"g"}, input : {<<"a">>}]

WebSearchActions == { "Search", "Other" }

WebSearchCallItems ==
    [type : {"WebSearchCall"}, id : {None, Some("")}, action : WebSearchActions]
    \cup [type : {"WebSearchCall"}, id : {Some("c2")}, action : {"Search"}]

\* Items that are no message, no reasoning and no tool call (LocalShellCall, ...).
OtherItems == { [type |-> "Other"] }

ToolCallItems == FunctionCallItems \cup CustomToolCallItems \cup WebSearchCallItems

Items == MessageItems \cup ReasoningItems \cup ToolCallItems \cup OtherItems

TokenUsages ==
    { [input_tokens |-> 3, cached_input_tokens |-> 1, output_tokens |-> 2,
       reasoning_output_tokens |-> 0, total_tokens |-> 6] }

ResponseIds == { "resp_1" }

SummaryIndices == { 0, 1 }

\* Texts of reasoning deltas.
ReasoningTexts == { <<"r">> }

\* ------------------------------------------------------------ response.rs

\* fn clamp(v: i64) -> u32 { if v <= 0 { 0 } else { v as u32 } }
\* The cast keeps the low 32 bits; the model's token counts stay below 2^31,
\* where it changes nothing.
clamp(v) == IF v <= 0 THEN 0 ELSE v

\* impl From<TokenUsage> for Usage
UsageFrom(value) ==
    [prompt_tokens |-> clamp(value.input_tokens + value.cached_input_tokens),
     completion_tokens |-> clamp(value.output_tokens + value.reasoning_output_tokens),
     total_tokens |-> clamp(value.total_tokens)]

\* The token counts of a source record: negative, zero and positive.
TokenCounts == (0 - MaxTokens) .. MaxTokens

\* TokenUsage records of the engine
UsageSources ==
    [input_tokens : TokenCounts, cached_input_tokens : TokenCounts,
     output_tokens : TokenCounts, reasoning_output_tokens : TokenCounts,
     total_tokens : TokenCounts]

\* Usage::default()
UsageDefault == [prompt_tokens |-> 0, completion_tokens |-> 0, total_tokens |-> 0]

\* ToolCall::new
ToolCallNew(id, name, arguments) ==
    [id |-> id, call_type |-> "function",
     function |-> [name |-> name, arguments |-> arguments]]

\* ------------------------------------------------- mod.rs: tool-call items

\* The n-th identifier Uuid::new_v4() hands out; every one is new.
WsCallId(n) == "ws_call_" \o ToString(n)

\* web_search_arguments: the serialized JSON object of the action, as opaque
\* bytes; it is never empty.
web_search_arguments(action) ==
    IF action = "Search" THEN <<"{", "type:search", "}">> ELSE <<"{", "}">>

\* tool_call_from_item; `fresh` is the uuid a web-search call without id gets.
tool_call_from_item(item, fresh) ==
    CASE item.type = "FunctionCall" ->
            Some(ToolCallNew(item.call_id, item.name, item.arguments))
      [] item.type = "CustomToolCall" ->
            Some(ToolCallNew(item.call_id, item.name, item.input))
      [] item.type = "WebSearchCall" ->
            Some(ToolCallNew(
                IF IsSome(item.id) /\ Unwrap(item.id) # "" THEN Unwrap(item.id) ELSE fresh,
                "web_search",
                web_search_arguments(item.action)))
      [] OTHER -> None

\* Whether tool_call_from_item draws a new uuid for the item.
DrawsUuid(item) ==
    item.type = "WebSearchCall" /\ ~(IsSome(item.id) /\ Unwrap(item.id) # "")

\* ------------------------------------------------------------- variables

VARIABLES
    \* incremental mode: the producer task of build_sse_stream
    pc,                 \* "loop" | "send_done" | "terminated" | "panicked"
    forward_result,     \* "running" | "Ok": what forward_sse_events returned
    consumed,           \* number of items taken from the engine's stream
    stream_response_id,
    sent_role,
    usage,
    text_deltas_since_last_message,
    streamed_tool_calls,
    tool_call_indices,
    tool_call_arg_progress,
    next_tool_index,
    uuid_counter,       \* number of uuids drawn so far
    \* the channel and its consumer
    sent,               \* events the channel accepted, in order
    dropped,            \* events whose send returned Err, in order
    received,           \* number of events the consumer has taken
    rxOpen,             \* whether the receiver is alive
    \* history of the run, for stating properties
    last_args,          \* call id -> arguments of the last tool-call item seen
    cumulative,         \* call id -> every item's arguments extended the previous
    first_seen,         \* call ids in the order they were first seen
    msg_done_mark       \* number of events emitted when the last message item-done ended

streamVars ==
    <<pc, forward_result, consumed, stream_response_id, sent_role, usage,
      text_deltas_since_last_message, streamed_tool_calls, tool_call_indices,
      tool_call_arg_progress, next_tool_index, uuid_counter, sent, dropped,
      received, rxOpen, last_args, cumulative, first_seen,
      msg_done_mark>>

\* ------------------------------------------------------ mod.rs: increments

\* chunk_event
chunk_event(response_id, delta, finish_reason, usage_opt) ==
    [id |-> response_id, object |-> "chat.completion.chunk", delta |-> delta,
     finish_reason |-> finish_reason, usage |-> usage_opt]

\* tool_call_delta_chunk
tool_call_delta_chunk(response_id, call, index) ==
    [id |-> response_id, object |-> "chat.completion.chunk",
     delta |-> [tool_calls |-> <<[index |-> index, id |-> call.id,
                                  type |-> call.call_type,
                                  function |-> call.function]>>],
     finish_reason |-> None, usage |-> None]

\* done_event
done_event == [data |-> "[DONE]"]

\* The delta object of a text increment: the role marker goes on the first one.
TextDeltaObj(text, with_role) ==
    IF with_role THEN [role |-> "assistant", content |-> text] ELSE [content |-> text]

ReasoningSummaryObj(delta) ==
    [reasoning |-> [summary |-> <<[type |-> "text", text |-> delta]>>]]

ReasoningContentObj(delta) ==
    [reasoning |-> [content |-> <<[type |-> "text", text |-> delta]>>]]

\* json!({})
EmptyObj == EmptyMap

\* Everything the producer handed to tx.send, in order: once a send has
\* failed the receiver is gone, so no later send succeeds.
Attempted == sent \o dropped

\* ------------------------------------------------------------ the channel

\* tx.send(..).await returns: the receiver is gone, or there is room.
SendReturns == ~rxOpen \/ Len(sent) - received < ChannelCapacity

\* tx.send(chunk).await; the send is Ok exactly when the receiver is alive.
TxSend(chunk) ==
    IF rxOpen
    THEN sent' = Append(sent, chunk) /\ dropped' = dropped
    ELSE sent' = sent /\ dropped' = Append(dropped, chunk)

NoSend == sent' = sent /\ dropped' = dropped

\* `break` out of the loop: forward_sse_events returns Ok(()).
Break == pc' = "send_done" /\ forward_result' = "Ok"

\* next iteration of the loop
Continue == pc' = "loop" /\ forward_result' = forward_result

\* The result of the send is ignored.
BreakIfSendFailed_Ignored == Continue

\* after a send in the loop: `if tx.send(..).await.is_err() { break; }`
BreakIfSendFailed == IF rxOpen THEN Continue ELSE Break

\* stream.next() yields an item
Takes ==
    /\ pc = "loop"
    /\ consumed < MaxEvents
    /\ consumed' = consumed + 1

consumerVars == <<received, rxOpen>>
toolVars ==
    <<streamed_tool_calls, tool_call_indices, tool_call_arg_progress,
      next_tool_index, uuid_counter, last_args, cumulative, first_seen>>

VARIABLES
    \* aggregate mode: aggregate_response_stream
    agg_pc,             \* "loop" | "returned"
    agg_consumed,       \* number of items taken from the engine's stream
    streamed_text,
    final_text,
    response_id,
    agg_usage,
    tool_calls,
    agg_tool_call_indices,
    reasoning_summary_parts,
    agg_uuid_counter,
    agg_result,         \* None while running, then the Ok or Err returned
    \* history of the run, for stating properties
    agg_first_seen,     \* call ids in the order they were first seen
    agg_last_call,      \* call id -> the tool call of the last item with that id
    agg_replacements,   \* number of tool-call items whose call id had been seen
    agg_last_text,      \* text of the latest assistant message item that had text
    agg_error_seen,     \* whether the engine's stream has yielded an Err
    agg_summary_deltas  \* the reasoning-summary deltas, [summary_index, delta], in arrival order

aggVars ==
    <<agg_pc, agg_consumed, streamed_text, final_text, response_id, agg_usage,
      tool_calls, agg_tool_call_indices, reasoning_summary_parts,
      agg_uuid_counter, agg_result, agg_first_seen, agg_last_call,
      agg_replacements, agg_last_text, agg_error_seen, agg_summary_deltas>>

VARIABLES
    \* conversion of one token-usage record: impl From<TokenUsage> for Usage
    usage_source,       \* None, or Some(the TokenUsage converted last)
    usage_reported      \* the Usage it was converted to

usageVars == <<usage_source, usage_reported>>

VARIABLES
    \* request normalization: ChatCompletionRequest::into_prompt
    norm_request,       \* None, or Some(the request normalized last)
    norm_result,        \* None, or the Ok(payload) or Err it returned
    norm_pushed         \* for each message of that request, the items it pushed

normVars == <<norm_request, norm_result, norm_pushed>>

VARIABLES
    \* prompt augmentation: ensure_web_search_tool, inject_developer_prompt
    cur_prompt,         \* None, or Some(the Prompt the calls mutate)
    prompt_initial,     \* that Prompt before the first call
    last_call,          \* None, or Some(the latest call: arguments, result)
    call_count,         \* number of calls made on the Prompt
    injected_count      \* number of calls that inserted a developer message

promptVars ==
    <<cur_prompt, prompt_initial, last_call, call_count, injected_count>>

VARIABLES
    \* schema sanitization: sanitize_json_schema
    schema_input,       \* None, or Some(the value handed to the sanitizer)
    schema_output,      \* None, or Some(the value after the call)
    schema_again        \* None, or Some(the value after a call on that value)

schemaVars == <<schema_input, schema_output, schema_again>>

VARIABLES
    \* one chat-completion request in the handler chat_completions
    handler_pc,         \* "idle", "received", "authenticated", "normalized", "done"
    handler_payload,    \* None, or Some(the request body and its stream flag)
    is_authenticated,   \* None, or Some(what the login check found)
    prompt_payload,     \* None, or Some(the payload into_prompt returned)
    handler_calls,      \* the calls the handler has made, in order
    handler_response    \* None, or the Ok or Err the handler returned

handlerVars ==
    <<handler_pc, handler_payload, is_authenticated, prompt_payload,
      handler_calls, handler_response>>

VARIABLES
    \* concurrent calls of RealChatExecutor::config_for_model
    task_pc,            \* task -> "idle", "read_wait", "lookup", "load",
                        \*         "write_wait", "insert", "done"
    task_requested,     \* task -> None, or Some(the trimmed model name)
    task_config,        \* task -> None, or Some(the Config it loaded)
    task_loads,         \* task -> number of configuration loads it made
    task_result,        \* task -> None, or the Ok(config) or Err returned
    config_cache,       \* the entries (key, config) of the HashMap
    lock_readers,       \* the tasks that hold a read guard of the RwLock
    lock_writer,        \* None, or Some(the task that holds the write guard)
    lock_queue          \* the tasks waiting for the RwLock, oldest first

cacheVars ==
    <<task_pc, task_requested, task_config, task_loads, task_result,
      config_cache, lock_readers, lock_writer, lock_queue>>

vars == <<streamVars, aggVars, usageVars, normVars, promptVars, schemaVars, handlerVars, cacheVars>>

\* What the actions of one component leave alone.
outsideStream == <<aggVars, usageVars, normVars, promptVars, schemaVars, handlerVars, cacheVars>>
outsideAgg == <<streamVars, usageVars, normVars, promptVars, schemaVars, handlerVars, cacheVars>>
outsideUsage == <<streamVars, aggVars, normVars, promptVars, schemaVars, handlerVars, cacheVars>>
outsideNorm == <<streamVars, aggVars, usageVars, promptVars, schemaVars, handlerVars, cacheVars>>
outsidePrompt == <<streamVars, aggVars, usageVars, normVars, schemaVars, handlerVars, cacheVars>>
outsideSchema == <<streamVars, aggVars, usageVars, normVars, promptVars, handlerVars, cacheVars>>
outsideHandler == <<streamVars, aggVars, usageVars, normVars, promptVars, schemaVars, cacheVars>>
outsideCache == <<streamVars, aggVars, usageVars, normVars, promptVars, schemaVars, handlerVars>>
outsideBoth == <<usageVars, normVars, promptVars, schemaVars, handlerVars, cacheVars>>

\* ------------------------------------- mod.rs: forward_tool_call_chunk

\* Whether byte offset n of s lies between two characters (str slicing
\* panics otherwise).
IsCharBoundary(s, n) == n >= Len(s) \/ s[n + 1] # "E2"

\* s has p as a prefix
HasPrefix(s, p) == Len(p) <= Len(s) /\ SubSeq(s, 1, Len(p)) = p

\* A slice that starts at 0: the whole string is sent again.
ArgDelta_Whole(full_arguments, prev_len) == full_arguments

\* full_arguments[prev_len..]
ArgDelta(full_arguments, prev_len) ==
    SubSeq(full_arguments, prev_len + 1, Len(full_arguments))

\* The recorded length is never consulted: every slice starts at 0.
PrevLen_Zero(progress, id) == 0

\* tool_call_arg_progress.get(&call.id).copied().unwrap_or(0)
PrevLen(progress, id) == IF id \in DOMAIN progress THEN progress[id] ELSE 0

\* The contains_key check is missing: every sight of the id assigns again.
IndicesWith_Reassign(indices, next, id) == MapInsert(indices, id, next)

\* The index map after the call id has been looked up, inserted when new.
IndicesWith(indices, next, id) ==
    IF id \in DOMAIN indices THEN indices ELSE MapInsert(indices, id, next)

\* next_tool_index after the call id has been looked up.
NextIndexWith(indices, next, id) ==
    IF id \in DOMAIN indices THEN next ELSE next + 1

\* What the run's history records of a tool-call item.
RecordToolItem(call) ==
    /\ last_args' = MapInsert(last_args, call.id, call.function.arguments)
    /\ cumulative' = MapInsert(cumulative, call.id,
            IF call.id \in DOMAIN last_args
            THEN cumulative[call.id]
                 /\ HasPrefix(call.function.arguments, last_args[call.id])
            ELSE TRUE)
    /\ first_seen' = IF call.id \in DOMAIN last_args
                     THEN first_seen ELSE Append(first_seen, call.id)

\* forward_tool_call_chunk(item, ..): its boolean result decides between
\* `break` (true) and the next iteration (false).
forward_tool_call_chunk(item) ==
    LET call_opt == tool_call_from_item(item, WsCallId(uuid_counter + 1)) IN
    IF item.type = "Reasoning" \/ ~IsSome(call_opt)
    THEN /\ Continue
         /\ NoSend
         /\ UNCHANGED toolVars
    ELSE
      LET call == Unwrap(call_opt)
          index == IndicesWith(tool_call_indices, next_tool_index, call.id)[call.id]
          full_arguments == call.function.arguments
          prev_len == PrevLen(tool_call_arg_progress, call.id)
          delta_call == ToolCallNew(call.id, call.function.name,
                                    ArgDelta(full_arguments, prev_len))
      IN
      /\ uuid_counter' = IF DrawsUuid(item) THEN uuid_counter + 1 ELSE uuid_counter
      /\ tool_call_indices' = IndicesWith(tool_call_indices, next_tool_index, call.id)
      /\ next_tool_index' = NextIndexWith(tool_call_indices, next_tool_index, call.id)
      /\ RecordToolItem(call)
      /\ IF Len(full_arguments) <= prev_len
         THEN /\ Continue
              /\ NoSend
              /\ UNCHANGED <<tool_call_arg_progress, streamed_tool_calls>>
         ELSE IF ~IsCharBoundary(full_arguments, prev_len)
         THEN \* the slice panics: the task unwinds and drops its sender
              /\ pc' = "panicked"
              /\ forward_result' = forward_result
              /\ NoSend
              /\ UNCHANGED <<tool_call_arg_progress, streamed_tool_calls>>
         ELSE /\ SendReturns
              /\ tool_call_arg_progress' =
                    MapInsert(tool_call_arg_progress, call.id, Len(full_arguments))
              /\ TxSend(tool_call_delta_chunk(stream_response_id, delta_call, index))
              /\ BreakIfSendFailed
              /\ streamed_tool_calls' =
                    IF rxOpen THEN Append(streamed_tool_calls, call)
                              ELSE streamed_tool_calls

\* ---------------------------------------------- mod.rs: forward_sse_events

\* The finish reason does not look at the streamed tool calls.
StreamFinishReason_Stop(calls) == "stop"

\* The finish reason of the final increment.
StreamFinishReason(calls) == IF calls # <<>> THEN "tool_calls" ELSE "stop"

\* The check of text_deltas_since_last_message is missing.
SynthesizesText_IgnoresDeltas(item, deltas_since_last_message) ==
    /\ item.role = "assistant"
    /\ IsSome(item.text)
    /\ ~TrimIsEmpty(Unwrap(item.text))

\* Item-done of a message: whether an increment with its text is synthesized.
SynthesizesText(item, deltas_since_last_message) ==
    /\ item.role = "assistant"
    /\ ~deltas_since_last_message
    /\ IsSome(item.text)
    /\ ~TrimIsEmpty(Unwrap(item.text))

\* Ok(ResponseEvent::OutputTextDelta(delta))
OnOutputTextDelta(delta) ==
    /\ Takes
    /\ SendReturns
    /\ text_deltas_since_last_message' = TRUE
    /\ sent_role' = TRUE
    /\ TxSend(chunk_event(stream_response_id, TextDeltaObj(delta, ~sent_role), None, None))
    /\ BreakIfSendFailed
    /\ UNCHANGED <<stream_response_id, usage, toolVars, consumerVars, msg_done_mark>>

\* Ok(ResponseEvent::OutputItemAdded(item))
OnOutputItemAdded(item) ==
    /\ Takes
    /\ IF item.type = "Message"
       THEN Continue /\ NoSend /\ UNCHANGED toolVars
       ELSE forward_tool_call_chunk(item)
    /\ UNCHANGED <<stream_response_id, sent_role, usage,
                   text_deltas_since_last_message, consumerVars, msg_done_mark>>

\* Ok(ResponseEvent::OutputItemDone(item))
OnOutputItemDone(item) ==
    /\ Takes
    /\ IF item.type = "Message"
       THEN /\ IF SynthesizesText(item, text_deltas_since_last_message)
               THEN /\ SendReturns
                    /\ sent_role' = TRUE
                    /\ TxSend(chunk_event(stream_response_id,
                                          TextDeltaObj(Unwrap(item.text), ~sent_role),
                                          None, None))
                    /\ BreakIfSendFailed
                    \* a failed send breaks before the flag is reset
                    /\ text_deltas_since_last_message' =
                          IF rxOpen THEN FALSE ELSE text_deltas_since_last_message
               ELSE /\ Continue
                    /\ NoSend
                    /\ sent_role' = sent_role
                    /\ text_deltas_since_last_message' = FALSE
            /\ msg_done_mark' = Len(sent') + Len(dropped')
            /\ UNCHANGED toolVars
       ELSE /\ forward_tool_call_chunk(item)
            /\ UNCHANGED <<sent_role, text_deltas_since_last_message, msg_done_mark>>
    /\ UNCHANGED <<stream_response_id, usage, consumerVars>>

\* Ok(ResponseEvent::ReasoningSummaryDelta { delta, .. })
OnReasoningSummaryDelta(delta, summary_index) ==
    /\ Takes
    /\ SendReturns
    /\ TxSend(chunk_event(stream_response_id, ReasoningSummaryObj(delta), None, None))
    /\ BreakIfSendFailed
    /\ UNCHANGED <<stream_response_id, sent_role, usage,
                   text_deltas_since_last_message, toolVars, consumerVars,
                   msg_done_mark>>

\* Ok(ResponseEvent::ReasoningSummaryPartAdded { .. }): only the verbose log
OnReasoningSummaryPartAdded(summary_index) ==
    /\ Takes
    /\ Continue
    /\ NoSend
    /\ UNCHANGED <<stream_response_id, sent_role, usage,
                   text_deltas_since_last_message, toolVars, consumerVars,
                   msg_done_mark>>

\* Ok(ResponseEvent::ReasoningContentDelta { delta, .. })
OnReasoningContentDelta(delta) ==
    /\ Takes
    /\ SendReturns
    /\ TxSend(chunk_event(stream_response_id, ReasoningContentObj(delta), None, None))
    /\ BreakIfSendFailed
    /\ UNCHANGED <<stream_response_id, sent_role, usage,
                   text_deltas_since_last_message, toolVars, consumerVars,
                   msg_done_mark>>

\* Ok(ResponseEvent::Completed { response_id, token_usage })
OnCompleted(rid, token_usage) ==
    /\ Takes
    /\ SendReturns
    /\ stream_response_id' = rid
    /\ usage' = IF IsSome(token_usage) THEN UsageFrom(Unwrap(token_usage)) ELSE usage
    /\ TxSend(chunk_event(rid, EmptyObj,
                          Some(StreamFinishReason(streamed_tool_calls)), Some(usage')))
    /\ Break
    /\ UNCHANGED <<sent_role, text_deltas_since_last_message, toolVars,
                   consumerVars, msg_done_mark>>

\* Ok(ResponseEvent::RateLimits(_)) | Ok(ResponseEvent::Created)
OnIgnored(type) ==
    /\ Takes
    /\ Continue
    /\ NoSend
    /\ UNCHANGED <<stream_response_id, sent_role, usage,
                   text_deltas_since_last_message, toolVars, consumerVars,
                   msg_done_mark>>

\* The terminal increment carries no finish reason.
ErrorChunk_NoReason(rid) == chunk_event(rid, EmptyObj, None, None)

\* The terminal increment of the Err arm.
ErrorChunk(rid) == chunk_event(rid, EmptyObj, Some("error"), None)

\* Err(err)
OnError ==
    /\ Takes
    /\ SendReturns
    /\ TxSend(ErrorChunk(stream_response_id))
    /\ Break
    /\ UNCHANGED <<stream_response_id, sent_role, usage,
                   text_deltas_since_last_message, toolVars, consumerVars,
                   msg_done_mark>>

\* The engine's stream is exhausted: `while let Some(..)` ends.
OnStreamEnd ==
    /\ pc = "loop"
    /\ Break
    /\ NoSend
    /\ UNCHANGED <<consumed, stream_response_id, sent_role, usage,
                   text_deltas_since_last_message, toolVars, consumerVars,
                   msg_done_mark>>

\* ------------------------------------------------ mod.rs: build_sse_stream

\* The task ends without the marker.
SendDone_NoMarker ==
    /\ pc = "send_done"
    /\ NoSend
    /\ pc' = "terminated"
    /\ UNCHANGED <<forward_result, consumed, stream_response_id,
                   sent_role, usage, text_deltas_since_last_message, toolVars,
                   consumerVars, msg_done_mark>>

\* let _ = tx.send(Ok(done_event())).await;  then the task ends
SendDone ==
    /\ pc = "send_done"
    /\ SendReturns
    /\ TxSend(done_event)
    /\ pc' = "terminated"
    /\ UNCHANGED <<forward_result, consumed, stream_response_id,
                   sent_role, usage, text_deltas_since_last_message, toolVars,
                   consumerVars, msg_done_mark>>

\* The transport layer takes the next event from the ReceiverStream.
ConsumerRecv ==
    /\ rxOpen
    /\ received < Len(sent)
    /\ received' = received + 1
    /\ UNCHANGED <<pc, forward_result, consumed, stream_response_id,
                   sent_role, usage, text_deltas_since_last_message, toolVars,
                   sent, dropped, rxOpen, msg_done_mark>>

\* The client disconnects: the receiver is dropped.
ConsumerDisconnect ==
    /\ rxOpen
    /\ rxOpen' = FALSE
    /\ UNCHANGED <<pc, forward_result, consumed, stream_response_id,
                   sent_role, usage, text_deltas_since_last_message, toolVars,
                   sent, dropped, received, msg_done_mark>>

\* --------------------------------- executor.rs: aggregate_response_stream

\* assistant_text_from_item
assistant_text_from_item(item) ==
    IF item.type = "Message" /\ item.role = "assistant" THEN item.text ELSE None

\* Every tool call is pushed, seen before or not.
UpsertToolCall_Push(calls, indices, call) == Append(calls, call)

\* The tool-call list after `call` has been merged in: an id seen before
\* replaces its record, a new id is pushed.
UpsertToolCall(calls, indices, call) ==
    IF call.id \in DOMAIN indices
    THEN IF indices[call.id] < Len(calls)
         THEN [calls EXCEPT ![indices[call.id] + 1] = call]
         ELSE calls
    ELSE Append(calls, call)

\* The index map after `call` has been merged in.
UpsertToolIndex(calls, indices, call) ==
    IF call.id \in DOMAIN indices THEN indices
    ELSE MapInsert(indices, call.id, Len(calls))

\* The buffered deltas win over the message item's text.
AggContent_DeltasFirst(final, streamed) ==
    IF ~TrimIsEmpty(streamed) THEN Some(streamed)
    ELSE IF IsSome(final) /\ ~TrimIsEmpty(Unwrap(final)) THEN final ELSE None

\* The last check for blank content is missing.
AggContent_NoBlankCheck(final, streamed) ==
    IF IsSome(final) THEN final
    ELSE IF TrimIsEmpty(streamed) THEN None ELSE Some(streamed)

\* final_text.or_else(streamed text unless blank), then blank content dropped
AggContent(final, streamed) ==
    LET content == IF IsSome(final) THEN final
                   ELSE IF TrimIsEmpty(streamed) THEN None ELSE Some(streamed)
    IN IF IsSome(content) /\ TrimIsEmpty(Unwrap(content)) THEN None ELSE content

\* The finish reason does not look at the tool calls.
AggFinishReason_Stop(calls) == "stop"

\* The finish reason of the aggregated response.
AggFinishReason(calls) == IF calls # <<>> THEN "tool_calls" ELSE "stop"

\* The values by descending key.
RECURSIVE IntoValues_Descending(_)
IntoValues_Descending(m) ==
    IF DOMAIN m = {} THEN <<>>
    ELSE LET k == CHOOSE x \in DOMAIN m : \A y \in DOMAIN m : x >= y
         IN <<m[k]>> \o IntoValues_Descending([x \in (DOMAIN m) \ {k} |-> m[x]])

\* BTreeMap::into_values: the values by ascending key.
RECURSIVE IntoValues(_)
IntoValues(m) ==
    IF DOMAIN m = {} THEN <<>>
    ELSE LET k == CHOOSE x \in DOMAIN m : \A y \in DOMAIN m : x <= y
         IN <<m[k]>> \o IntoValues([x \in (DOMAIN m) \ {k} |-> m[x]])

\* .filter(|text| !text.trim().is_empty()).collect()
RECURSIVE FilterNonBlank(_)
FilterNonBlank(parts) ==
    IF parts = <<>> THEN <<>>
    ELSE (IF TrimIsEmpty(Head(parts)) THEN <<>> ELSE <<Head(parts)>>)
         \o FilterNonBlank(Tail(parts))

\* ChatCompletionResponse::with_metadata, with the summary parts handed to
\* AssistantReasoning::from_summary_parts
with_metadata(content, calls, finish_reason, rid, usage_, reasoning_summary) ==
    [id |-> rid, object |-> "chat.completion",
     message |-> [role |-> "assistant", content |-> content, tool_calls |-> calls],
     finish_reason |-> finish_reason, usage |-> usage_,
     reasoning_summary |-> reasoning_summary]

\* The part of the function after the loop, given what the last iteration
\* left in response_id and usage.
Finalize(rid_opt, usage_) ==
    /\ agg_pc' = "returned"
    /\ agg_error_seen' = agg_error_seen
    /\ agg_result' = Some([ok |-> TRUE, response |->
            with_metadata(AggContent(final_text, streamed_text),
                          tool_calls,
                          AggFinishReason(tool_calls),
                          IF IsSome(rid_opt) THEN Unwrap(rid_opt) ELSE "resp_local",
                          usage_,
                          FilterNonBlank(IntoValues(reasoning_summary_parts)))])

AggTakes ==
    /\ agg_pc = "loop"
    /\ agg_consumed < AggMaxEvents
    /\ agg_consumed' = agg_consumed + 1

AggContinue ==
    /\ agg_pc' = "loop"
    /\ agg_result' = agg_result
    /\ agg_error_seen' = agg_error_seen

aggToolVars ==
    <<tool_calls, agg_tool_call_indices, agg_uuid_counter, agg_first_seen,
      agg_last_call, agg_replacements>>

\* Err(err), were the error dropped and the loop continued.
AggOnError_Ignored ==
    /\ AggTakes
    /\ agg_pc' = "loop"
    /\ agg_result' = agg_result
    /\ agg_error_seen' = TRUE
    /\ UNCHANGED <<streamed_text, final_text, response_id, agg_usage,
                   reasoning_summary_parts, aggToolVars, agg_last_text, agg_summary_deltas>>

\* Err(err): `event.map_err(..)?` returns the Internal error
AggOnError ==
    /\ AggTakes
    /\ agg_pc' = "returned"
    /\ agg_result' = Some([ok |-> FALSE, error |-> "Internal"])
    /\ agg_error_seen' = TRUE
    /\ UNCHANGED <<streamed_text, final_text, response_id, agg_usage,
                   reasoning_summary_parts, aggToolVars, agg_last_text, agg_summary_deltas>>

\* ResponseEvent::OutputTextDelta(delta)
AggOnOutputTextDelta(delta) ==
    /\ AggTakes
    /\ AggContinue
    /\ streamed_text' = streamed_text \o delta
    /\ UNCHANGED <<final_text, response_id, agg_usage, reasoning_summary_parts,
                   aggToolVars, agg_last_text, agg_summary_deltas>>

\* ResponseEvent::OutputItemAdded(item) | ResponseEvent::OutputItemDone(item)
AggOnOutputItem(item) ==
    /\ AggTakes
    /\ AggContinue
    /\ IF item.type = "Reasoning"
       THEN UNCHANGED <<final_text, aggToolVars, agg_last_text>>
       ELSE
         LET text == assistant_text_from_item(item)
             call_opt == tool_call_from_item(item, WsCallId(agg_uuid_counter + 1))
         IN
         /\ final_text' = IF IsSome(text) THEN text ELSE final_text
         /\ agg_last_text' =
                IF item.type = "Message" /\ item.role = "assistant" /\ IsSome(item.text)
                THEN item.text ELSE agg_last_text
         /\ IF IsSome(call_opt)
            THEN LET call == Unwrap(call_opt) IN
                 /\ tool_calls' = UpsertToolCall(tool_calls, agg_tool_call_indices, call)
                 /\ agg_tool_call_indices' =
                        UpsertToolIndex(tool_calls, agg_tool_call_indices, call)
                 /\ agg_uuid_counter' =
                        IF DrawsUuid(item) THEN agg_uuid_counter + 1 ELSE agg_uuid_counter
                 /\ agg_first_seen' =
                        IF call.id \in DOMAIN agg_last_call
                        THEN agg_first_seen ELSE Append(agg_first_seen, call.id)
                 /\ agg_last_call' = MapInsert(agg_last_call, call.id, call)
                 /\ agg_replacements' =
                        IF call.id \in DOMAIN agg_last_call
                        THEN agg_replacements + 1 ELSE agg_replacements
            ELSE UNCHANGED aggToolVars
    /\ UNCHANGED <<streamed_text, response_id, agg_usage, reasoning_summary_parts,
                   agg_summary_deltas>>

\* ResponseEvent::ReasoningSummaryDelta { delta, summary_index }
AggOnReasoningSummaryDelta(delta, summary_index) ==
    /\ AggTakes
    /\ AggContinue
    /\ reasoning_summary_parts' =
          MapInsert(reasoning_summary_parts, summary_index,
                    (IF summary_index \in DOMAIN reasoning_summary_parts
                     THEN reasoning_summary_parts[summary_index] ELSE <<>>) \o delta)
    /\ agg_summary_deltas' =
          Append(agg_summary_deltas, [summary_index |-> summary_index, delta |-> delta])
    /\ UNCHANGED <<streamed_text, final_text, response_id, agg_usage, aggToolVars,
                   agg_last_text>>

\* ResponseEvent::ReasoningSummaryPartAdded { summary_index }
AggOnReasoningSummaryPartAdded(summary_index) ==
    /\ AggTakes
    /\ AggContinue
    /\ reasoning_summary_parts' =
          IF summary_index \in DOMAIN reasoning_summary_parts
          THEN reasoning_summary_parts
          ELSE MapInsert(reasoning_summary_parts, summary_index, <<>>)
    /\ UNCHANGED <<streamed_text, final_text, response_id, agg_usage, aggToolVars,
                   agg_last_text, agg_summary_deltas>>

\* ResponseEvent::Completed { response_id, token_usage }: break, then the
\* response is built
AggOnCompleted(rid, token_usage) ==
    /\ AggTakes
    /\ response_id' = Some(rid)
    /\ agg_usage' = IF IsSome(token_usage) THEN UsageFrom(Unwrap(token_usage))
                    ELSE agg_usage
    /\ Finalize(response_id', agg_usage')
    /\ UNCHANGED <<streamed_text, final_text, reasoning_summary_parts, aggToolVars,
                   agg_last_text, agg_summary_deltas>>

\* RateLimits | Created, and `other` (ReasoningContentDelta): nothing changes
AggOnIgnored(type) ==
    /\ AggTakes
    /\ AggContinue
    /\ UNCHANGED <<streamed_text, final_text, response_id, agg_usage,
                   reasoning_summary_parts, aggToolVars, agg_last_text, agg_summary_deltas>>

\* The engine's stream is exhausted: the loop ends and the response is built.
AggOnStreamEnd ==
    /\ agg_pc = "loop"
    /\ Finalize(response_id, agg_usage)
    /\ UNCHANGED <<agg_consumed, streamed_text, final_text, response_id, agg_usage,
                   reasoning_summary_parts, aggToolVars, agg_last_text, agg_summary_deltas>>

\* ---------------------------------------------- openai/chat.rs: strings

\* The strings of a request are sequences of characters.
S_user == <<"u", "s", "e", "r">>
S_system == <<"s", "y", "s", "t", "e", "m">>
S_developer == <<"d", "e", "v", "e", "l", "o", "p", "e", "r">>
S_assistant == <<"a", "s", "s", "i", "s", "t", "a", "n", "t">>
S_tool == <<"t", "o", "o", "l">>
S_function == <<"f", "u", "n", "c", "t", "i", "o", "n">>
S_text == <<"t", "e", "x", "t">>
S_input_text == <<"i", "n", "p", "u", "t", "_", "t", "e", "x", "t">>
S_image_url == <<"i", "m", "a", "g", "e", "_", "u", "r", "l">>
S_input_image == <<"i", "n", "p", "u", "t", "_", "i", "m", "a", "g", "e">>
S_gpt5 == <<"g", "p", "t", "-", "5">>
S_call_ == <<"c", "a", "l", "l", "_">>
S_braces == <<"{", "}">>
S_object == <<"o", "b", "j", "e", "c", "t">>
S_array == <<"a", "r", "r", "a", "y">>
S_string == <<"s", "t", "r", "i", "n", "g">>
S_number == <<"n", "u", "m", "b", "e", "r">>
S_integer == <<"i", "n", "t", "e", "g", "e", "r">>
S_boolean == <<"b", "o", "o", "l", "e", "a", "n">>

UpperCase ==
    <<"A", "B", "C", "D", "E", "F", "G", "H", "I", "J", "K", "L", "M",
      "N", "O", "P", "Q", "R", "S", "T", "U", "V", "W", "X", "Y", "Z">>
LowerCase ==
    <<"a", "b", "c", "d", "e", "f", "g", "h", "i", "j", "k", "l", "m",
      "n", "o", "p", "q", "r", "s", "t", "u", "v", "w", "x", "y", "z">>

\* The lower-case letter of each upper-case ASCII letter.
AsciiLowerOf ==
    [c \in { UpperCase[i] : i \in 1..Len(UpperCase) } |->
        LowerCase[CHOOSE i \in 1..Len(UpperCase) : UpperCase[i] = c]]

\* u8::to_ascii_lowercase
AsciiLowerChar(c) == IF c \in DOMAIN AsciiLowerOf THEN AsciiLowerOf[c] ELSE c

\* str::to_ascii_lowercase
to_ascii_lowercase(s) == [i \in 1..Len(s) |-> AsciiLowerChar(s[i])]

\* str::eq_ignore_ascii_case
eq_ignore_ascii_case(a, b) == to_ascii_lowercase(a) = to_ascii_lowercase(b)

\* char::is_whitespace, on the characters of the model
IsWhitespace(c) == c \in {" ", "\t", "\n"}

\* str::trim_start
RECURSIVE trim_start(_)
trim_start(s) ==
    IF s # <<>> /\ IsWhitespace(Head(s)) THEN trim_start(Tail(s)) ELSE s

\* str::trim_end
RECURSIVE trim_end(_)
trim_end(s) ==
    IF s # <<>> /\ IsWhitespace(s[Len(s)]) THEN trim_end(SubSeq(s, 1, Len(s) - 1))
    ELSE s

\* str::trim
trim(s) == trim_end(trim_start(s))

Digits == <<"0", "1", "2", "3", "4", "5", "6", "7", "8", "9">>

\* The decimal form of a usize, as `{}` formats it.
RECURSIVE Decimal(_)
Decimal(n) ==
    IF n < 10 THEN <<Digits[n + 1]>>
    ELSE Decimal(n \div 10) \o <<Digits[(n % 10) + 1]>>

\* ------------------------------------------- serde_json::Value and Result

JNull == [kind |-> "null"]
JBool(b) == [kind |-> "bool", bool |-> b]
JNumber(n) == [kind |-> "number", number |-> n]
JString(s) == [kind |-> "string", str |-> s]
JArray(items) == [kind |-> "array", items |-> items]
JObject(map) == [kind |-> "object", map |-> map]

\* map.get(key).and_then(Value::as_str)
GetStr(map, key) ==
    IF key \in DOMAIN map /\ map[key].kind = "string"
    THEN Some(map[key].str) ELSE None

\* value.get(key).and_then(Value::as_str): a value that is no object has no keys
ValueGetStr(value, key) ==
    IF value.kind = "object" THEN GetStr(value.map, key) ELSE None

Ok(x) == [ok |-> TRUE, value |-> x]
Err(e) == [ok |-> FALSE, error |-> e]

\* ApiError::bad_request(..)
BadRequest == Err("BadRequest")

\* -------------------------------------- openai/chat.rs: content conversion

\* fn normalize_model
normalize_model(model) ==
    IF trim(model) = <<>> THEN S_gpt5 ELSE trim(model)

\* fn normalize_role, were `system` passed through
normalize_role_KeepSystem(role) ==
    LET trimmed == trim(role) IN
    IF trimmed = <<>> THEN S_user ELSE to_ascii_lowercase(trimmed)

\* fn normalize_role
normalize_role(role) ==
    LET trimmed == trim(role)
        lowered == to_ascii_lowercase(trimmed)
    IN IF trimmed = <<>> THEN S_user
       ELSE IF lowered = S_system THEN S_developer
       ELSE lowered

\* fn content_item_for_role, were every text an input text
content_item_for_role_AlwaysInput(role, text) ==
    [type |-> "InputText", text |-> text]

\* fn content_item_for_role
content_item_for_role(role, text) ==
    IF role = S_assistant
    THEN [type |-> "OutputText", text |-> text]
    ELSE [type |-> "InputText", text |-> text]

InputImage(url) == [type |-> "InputImage", image_url |-> url]

\* fn extract_image_url: Some(url), or None where the source returns the error
extract_image_url(map) ==
    IF IsSome(GetStr(map, "image_url")) THEN GetStr(map, "image_url")
    ELSE IF "image_url" \in DOMAIN map /\ map["image_url"].kind = "object"
            /\ IsSome(GetStr(map["image_url"].map, "url"))
    THEN GetStr(map["image_url"].map, "url")
    ELSE None

\* The arms of `match ctype` shared by convert_content and
\* convert_content_item: a text block, an image block, or an unsupported type.
ConvertTypedBlock(role, map, ctype) ==
    IF ctype \in {S_text, S_input_text} THEN
        IF IsSome(GetStr(map, "text"))
        THEN Ok(content_item_for_role(role, Unwrap(GetStr(map, "text"))))
        ELSE BadRequest
    ELSE IF ctype \in {S_image_url, S_input_image} THEN
        IF IsSome(extract_image_url(map))
        THEN Ok(InputImage(Unwrap(extract_image_url(map))))
        ELSE BadRequest
    ELSE BadRequest

\* fn convert_content_item
convert_content_item(role, value) ==
    IF value.kind = "string" THEN Ok(content_item_for_role(role, value.str))
    ELSE IF value.kind = "object" THEN
        IF IsSome(GetStr(value.map, "type"))
        THEN ConvertTypedBlock(role, value.map, Unwrap(GetStr(value.map, "type")))
        ELSE BadRequest
    ELSE BadRequest

\* The loop of the Value::Array arm, were an invalid element dropped.
RECURSIVE convert_content_array_SkipInvalid(_, _)
convert_content_array_SkipInvalid(role, items) ==
    IF items = <<>> THEN Ok(<<>>)
    ELSE LET first == convert_content_item(role, Head(items))
             rest == convert_content_array_SkipInvalid(role, Tail(items))
         IN IF first.ok THEN Ok(<<first.value>> \o rest.value) ELSE rest

\* The loop of the Value::Array arm: the first invalid element is the result.
RECURSIVE convert_content_array(_, _)
convert_content_array(role, items) ==
    IF items = <<>> THEN Ok(<<>>)
    ELSE LET first == convert_content_item(role, Head(items))
             rest == convert_content_array(role, Tail(items))
         IN IF ~first.ok THEN first
            ELSE IF ~rest.ok THEN rest
            ELSE Ok(<<first.value>> \o rest.value)

\* fn convert_content
convert_content(role, value) ==
    IF value.kind = "null" THEN Ok(<<>>)
    ELSE IF value.kind = "string" THEN Ok(<<content_item_for_role(role, value.str)>>)
    ELSE IF value.kind = "array" THEN convert_content_array(role, value.items)
    ELSE IF value.kind = "object" THEN
        IF IsSome(GetStr(value.map, "text"))
        THEN Ok(<<content_item_for_role(role, Unwrap(GetStr(value.map, "text")))>>)
        ELSE IF IsSome(GetStr(value.map, "type")) THEN
            LET block == ConvertTypedBlock(role, value.map,
                                           Unwrap(GetStr(value.map, "type")))
            IN IF block.ok THEN Ok(<<block.value>>) ELSE block
        ELSE BadRequest
    ELSE BadRequest

\* fn first_text
first_text(content) ==
    LET texts == { i \in 1..Len(content) : content[i].type = "InputText" } IN
    IF texts = {} THEN None
    ELSE Some(content[CHOOSE i \in texts : \A j \in texts : i <= j].text)

\* ------------------------------- openai/chat.rs: tool calls, tool outputs

\* format!("call_{}", items.len()), were the count taken after the push
SynthesizedCallId_OneBased(items) == S_call_ \o Decimal(Len(items) + 1)

\* format!("call_{}", items.len())
SynthesizedCallId(items) == S_call_ \o Decimal(Len(items))

\* The body of the loop of convert_assistant_tool_calls: items with the
\* FunctionCall of tc pushed, or items as they are where the body continues.
ConvertToolCall(tc, items) ==
    LET call_type == IF IsSome(tc.type) THEN Unwrap(tc.type) ELSE S_function
        function == Unwrap(tc.function)
        name == trim(Unwrap(function.name))
    IN IF ~eq_ignore_ascii_case(call_type, S_function) THEN items
       ELSE IF ~IsSome(tc.function) THEN items
       ELSE IF ~IsSome(function.name) \/ name = <<>> THEN items
       ELSE Append(items,
                [type |-> "FunctionCall",
                 name |-> name,
                 arguments |-> IF IsSome(function.arguments)
                               THEN Unwrap(function.arguments) ELSE S_braces,
                 call_id |-> IF IsSome(tc.id) /\ trim(Unwrap(tc.id)) # <<>>
                             THEN Unwrap(tc.id) ELSE SynthesizedCallId(items)])

RECURSIVE ToolCallsLoop(_, _)
ToolCallsLoop(list, items) ==
    IF list = <<>> THEN items
    ELSE ToolCallsLoop(Tail(list), ConvertToolCall(Head(list), items))

\* fn convert_assistant_tool_calls
convert_assistant_tool_calls(calls) ==
    IF IsSome(calls) THEN ToolCallsLoop(Unwrap(calls), <<>>) ELSE <<>>

\* parts.iter().filter_map(|part| part.get("text").and_then(Value::as_str))
RECURSIVE PartTexts(_)
PartTexts(parts) ==
    IF parts = <<>> THEN <<>>
    ELSE (IF IsSome(ValueGetStr(Head(parts), "text"))
          THEN <<Unwrap(ValueGetStr(Head(parts), "text"))>> ELSE <<>>)
         \o PartTexts(Tail(parts))

\* [..].join("\n")
RECURSIVE JoinLines(_)
JoinLines(texts) ==
    IF texts = <<>> THEN <<>>
    ELSE IF Len(texts) = 1 THEN texts[1]
    ELSE texts[1] \o <<"\n">> \o JoinLines(Tail(texts))

\* The FunctionCallOutput of convert_tool_output for a call id, or None for
\* a content that is neither a string nor an array.
ToolOutputFor(call_id, content) ==
    LET item(text) ==
            [type |-> "FunctionCallOutput", call_id |-> call_id,
             output |-> [content |-> text, success |-> Some(TRUE),
                         content_items |-> None]]
    IN IF content.kind = "string" THEN Some(item(content.str))
       ELSE IF content.kind = "array" THEN Some(item(JoinLines(PartTexts(content.items))))
       ELSE None

\* fn convert_tool_output, were a missing call id replaced by the empty string
convert_tool_output_EmptyCallId(message) ==
    ToolOutputFor(IF IsSome(message.tool_call_id)
                  THEN Unwrap(message.tool_call_id) ELSE <<>>,
                  message.content)

\* fn convert_tool_output
convert_tool_output(message) ==
    IF ~IsSome(message.tool_call_id) THEN None
    ELSE ToolOutputFor(Unwrap(message.tool_call_id), message.content)

\* ------------------------------------------ openai/schema.rs: the sanitizer

SchemaTypeNames ==
    {S_object, S_array, S_string, S_number, S_integer, S_boolean}

\* The first supported type name of a `type` array, if any.
FirstListedType(types) ==
    LET hits == { i \in 1..Len(types) :
                    types[i].kind = "string" /\ types[i].str \in SchemaTypeNames }
    IN IF hits = {} THEN None
       ELSE Some(types[CHOOSE i \in hits : \A j \in hits : i <= j].str)

\* The type sanitize_object_schema settles on for a map.
ResolveSchemaType(map) ==
    LET has(k) == k \in DOMAIN map IN
    IF IsSome(GetStr(map, "type")) THEN Unwrap(GetStr(map, "type"))
    ELSE IF has("type") /\ map["type"].kind = "array"
            /\ IsSome(FirstListedType(map["type"].items))
         THEN Unwrap(FirstListedType(map["type"].items))
    ELSE IF has("properties") \/ has("required") \/ has("additionalProperties")
         THEN S_object
    ELSE IF has("items") \/ has("prefixItems") THEN S_array
    ELSE IF has("enum") \/ has("const") \/ has("format") THEN S_string
    ELSE IF has("minimum") \/ has("maximum") \/ has("exclusiveMinimum")
            \/ has("exclusiveMaximum") \/ has("multipleOf")
         THEN S_number
    ELSE S_string

\* The keys descended into, were `items` left as it is
DescendedKeys_NoItems == {"oneOf", "anyOf", "allOf", "prefixItems"}

\* The keys whose value sanitize_object_schema hands to sanitize_json_schema
\* whatever its kind.
DescendedKeys == {"items", "oneOf", "anyOf", "allOf", "prefixItems"}

\* The `items` given to an array schema without one, were it the boolean
\* schema `true`
DefaultItems_True == JBool(TRUE)

\* json!({ "type": "string" }), the `items` given to an array schema without
\* one
DefaultItems == JObject([type |-> JString(S_string)])

RECURSIVE sanitize_json_schema(_), sanitize_object_schema(_)

\* fn sanitize_json_schema
sanitize_json_schema(value) ==
    IF value.kind = "bool" THEN JObject([type |-> JString(S_string)])
    ELSE IF value.kind = "array"
         THEN JArray([i \in 1..Len(value.items) |-> sanitize_json_schema(value.items[i])])
    ELSE IF value.kind = "object" THEN JObject(sanitize_object_schema(value.map))
    ELSE value

\* fn sanitize_object_schema
sanitize_object_schema(map) ==
    LET nested == [k \in DOMAIN map |->
            IF k = "properties" /\ map[k].kind = "object"
            THEN JObject([p \in DOMAIN map[k].map |-> sanitize_json_schema(map[k].map[p])])
            ELSE IF k \in DescendedKeys
            THEN sanitize_json_schema(map[k])
            ELSE map[k]]
        schema_type == ResolveSchemaType(nested)
        typed == MapInsert(nested, "type", JString(schema_type))
    IN IF schema_type = S_object THEN
            LET with_properties ==
                    IF "properties" \in DOMAIN typed THEN typed
                    ELSE MapInsert(typed, "properties", JObject(EmptyMap))
            IN [k \in DOMAIN with_properties |->
                    IF k = "additionalProperties" /\ with_properties[k].kind # "bool"
                    THEN sanitize_json_schema(with_properties[k])
                    ELSE with_properties[k]]
       ELSE IF schema_type = S_array /\ "items" \notin DOMAIN typed
            THEN MapInsert(typed, "items", DefaultItems)
       ELSE typed

\* ---------------------------------- openai/chat.rs: the tool declarations

\* fn normalize_tool_schema
normalize_tool_schema(parameters) ==
    IF IsSome(parameters) /\ Unwrap(parameters).kind = "object" THEN
        LET map == Unwrap(parameters).map
            typed == IF "type" \in DOMAIN map THEN map
                     ELSE MapInsert(map, "type", JString(S_object))
        IN JObject(IF "properties" \in DOMAIN typed THEN typed
                   ELSE MapInsert(typed, "properties", JObject(EmptyMap)))
    ELSE JObject([type |-> JString(S_object), properties |-> JObject(EmptyMap)])

\* serde_json::from_value::<JsonSchema>: Some(schema), or None for the Err.
\* JsonSchema is the engine's enum tagged by `type` (boolean, string, number
\* with alias integer, array with items, object with properties).
RECURSIVE JsonSchemaFromValue(_)
JsonSchemaFromValue(value) ==
    IF value.kind # "object" \/ ~IsSome(GetStr(value.map, "type")) THEN None
    ELSE LET map == value.map
             tag == Unwrap(GetStr(map, "type"))
         IN IF tag = S_boolean THEN Some([type |-> "Boolean"])
            ELSE IF tag = S_string THEN Some([type |-> "String"])
            ELSE IF tag \in {S_number, S_integer} THEN Some([type |-> "Number"])
            ELSE IF tag = S_array THEN
                IF "items" \in DOMAIN map /\ IsSome(JsonSchemaFromValue(map["items"]))
                THEN Some([type |-> "Array",
                           items |-> Unwrap(JsonSchemaFromValue(map["items"]))])
                ELSE None
            ELSE IF tag = S_object THEN
                IF /\ "properties" \in DOMAIN map
                   /\ map["properties"].kind = "object"
                   /\ \A p \in DOMAIN map["properties"].map :
                         IsSome(JsonSchemaFromValue(map["properties"].map[p]))
                THEN Some([type |-> "Object",
                           properties |->
                               [p \in DOMAIN map["properties"].map |->
                                   Unwrap(JsonSchemaFromValue(map["properties"].map[p]))]])
                ELSE None
            ELSE None

\* JsonSchema::Object { properties: BTreeMap::new(), .. }
EmptyObjectSchema == [type |-> "Object", properties |-> EmptyMap]

\* specs.push(..), were a declaration of a name already present to replace it
PushSpec_LastWins(specs, spec) ==
    IF \E i \in 1..Len(specs) : specs[i].name = spec.name
    THEN [i \in 1..Len(specs) |-> IF specs[i].name = spec.name THEN spec ELSE specs[i]]
    ELSE Append(specs, spec)

\* specs.push(ToolSpec::Function(..))
PushSpec(specs, spec) == Append(specs, spec)

\* The body of the loop of convert_function_tools.
ConvertFunctionTool(tool, specs) ==
    LET function == Unwrap(tool.function)
        name == trim(Unwrap(function.name))
        description == IF IsSome(function.description)
                       THEN trim(Unwrap(function.description)) ELSE <<>>
        parameters_value == sanitize_json_schema(normalize_tool_schema(function.parameters))
        parsed == JsonSchemaFromValue(parameters_value)
    IN IF ~eq_ignore_ascii_case(tool.kind, S_function) THEN specs
       ELSE IF ~IsSome(tool.function) THEN specs
       ELSE IF ~IsSome(function.name) \/ name = <<>> THEN specs
       ELSE PushSpec(specs,
                [type |-> "Function",
                 name |-> name,
                 description |-> description,
                 strict |-> IF IsSome(function.strict) THEN Unwrap(function.strict)
                            ELSE FALSE,
                 parameters |-> IF IsSome(parsed) THEN Unwrap(parsed)
                                ELSE EmptyObjectSchema])

RECURSIVE FunctionToolsLoop(_, _)
FunctionToolsLoop(tools, specs) ==
    IF tools = <<>> THEN specs
    ELSE FunctionToolsLoop(Tail(tools), ConvertFunctionTool(Head(tools), specs))

\* fn convert_function_tools
convert_function_tools(tools) ==
    LET specs == FunctionToolsLoop(tools, <<>>) IN
    IF specs = <<>> THEN Ok(None) ELSE Ok(Some(specs))

\* ------------------------------------- openai/chat.rs: into_prompt

\* The loop over self.messages: the prompt input and the first user text, or
\* the error of the first content that fails to convert.  spans records, for
\* each message in order, the items it pushed.
RECURSIVE MessagesLoop(_, _, _, _)
MessagesLoop(messages, input, first_user, spans) ==
    IF messages = <<>>
    THEN [ok |-> TRUE, input |-> input, first_user |-> first_user, spans |-> spans]
    ELSE
        LET message == Head(messages)
            role == normalize_role(message.role)
            output_item == convert_tool_output(message)
            tool_call_items ==
                IF role = S_assistant
                THEN convert_assistant_tool_calls(message.tool_calls) ELSE <<>>
            content == convert_content(role, message.content)
            pushed ==
                IF role = S_tool
                THEN (IF IsSome(output_item) THEN <<Unwrap(output_item)>> ELSE <<>>)
                ELSE tool_call_items \o
                     (IF content.value = <<>> THEN <<>>
                      ELSE <<[type |-> "Message", role |-> role,
                              content |-> content.value]>>)
        IN IF role = S_tool
           THEN MessagesLoop(Tail(messages), input \o pushed, first_user,
                             Append(spans, pushed))
           ELSE IF ~content.ok THEN content
           ELSE MessagesLoop(Tail(messages), input \o pushed,
                             IF ~IsSome(first_user) /\ role = S_user
                             THEN first_text(content.value) ELSE first_user,
                             Append(spans, pushed))

\* into_prompt after the check of the message list.
BuildPrompt(request) ==
    LET loop == MessagesLoop(request.messages, <<>>, None, <<>>)
        specs == convert_function_tools(request.tools)
    IN IF ~loop.ok THEN loop
       ELSE IF ~specs.ok THEN specs
       ELSE Ok([model |-> normalize_model(request.model),
                prompt |->
                    [input |-> loop.input,
                     tools |-> IF IsSome(specs.value) THEN Unwrap(specs.value)
                               ELSE <<>>,
                     parallel_tool_calls |->
                        IF IsSome(request.parallel_tool_calls)
                        THEN Unwrap(request.parallel_tool_calls) ELSE FALSE],
                first_user_message |-> loop.first_user])

\* ChatCompletionRequest::into_prompt, were an empty message list accepted
into_prompt_AcceptsEmpty(request) == BuildPrompt(request)

\* ChatCompletionRequest::into_prompt
into_prompt(request) ==
    IF request.messages = <<>> THEN BadRequest ELSE BuildPrompt(request)

\* The items each message of the request pushed (empty where into_prompt
\* returned an error).
PushedPerMessage(request) ==
    LET loop == MessagesLoop(request.messages, <<>>, None, <<>>) IN
    IF request.messages # <<>> /\ loop.ok THEN loop.spans ELSE <<>>

\* ----------------------------------------------- the requests of the model

S_hi == <<"h", "i">>
S_c1 == <<"c", "1">>

TextBlock(text) == JObject([type |-> JString(S_text), text |-> JString(text)])
InputTextBlock(text) == JObject([type |-> JString(S_input_text), text |-> JString(text)])
ImageBlock == JObject([type |-> JString(S_image_url), image_url |-> JString(<<"u">>)])
NestedImageBlock ==
    JObject([type |-> JString(S_input_image),
             image_url |-> JObject([url |-> JString(<<"u">>)])])
BareTextObject == JObject([text |-> JString(<<"t">>)])
UntypedObject == JObject([image_url |-> JString(<<"u">>)])
VideoBlock == JObject([type |-> JString(<<"v", "i", "d", "e", "o">>)])
TextBlockNoText == JObject([type |-> JString(S_text)])

\* Content values: every kind of JSON value, arrays with valid and invalid
\* elements at either end, objects with and without `type` and `text`.
Contents ==
    { JNull, JString(S_hi), JString(<<>>), JNumber(42), JBool(TRUE),
      JArray(<<>>),
      JArray(<<TextBlock(<<"t">>), ImageBlock>>),
      JArray(<<JString(<<"a">>), VideoBlock>>),
      JArray(<<TextBlockNoText, JString(<<"a">>)>>),
      JArray(<<JNumber(42)>>),
      BareTextObject, InputTextBlock(<<"t">>), NestedImageBlock, VideoBlock,
      UntypedObject }

\* Role strings: plain, padded, mixed case, empty.
Roles ==
    { S_user, <<>>, S_system, <<" ", "S", "y", "s", "T", "E", "M", "\n">>,
      S_assistant, <<"A", "s", "s", "i", "s", "t", "a", "n", "t">>,
      S_tool, <<"T", "o", "o", "l", " ">>, S_developer }

ChatToolCall(id, type, function) == [id |-> id, type |-> type, function |-> function]
ChatToolFunction(name, arguments) == [name |-> name, arguments |-> arguments]

\* tool_calls lists of assistant messages: with and without ids, with calls
\* that do not qualify before and between those that do.
ToolCallLists ==
    { <<ChatToolCall(Some(S_c1), Some(S_function),
                     Some(ChatToolFunction(Some(<<"f">>), Some(<<"a">>)))),
        ChatToolCall(None, None,
                     Some(ChatToolFunction(Some(<<" ", "g", " ">>), None)))>>,
      <<ChatToolCall(Some(S_c1), Some(<<"c", "u", "s", "t", "o", "m">>),
                     Some(ChatToolFunction(Some(<<"f">>), None))),
        ChatToolCall(None, Some(<<"F", "u", "n", "c", "t", "i", "o", "n">>),
                     Some(ChatToolFunction(Some(<<"f">>), None)))>>,
      <<ChatToolCall(None, None, Some(ChatToolFunction(Some(<<"f">>), None))),
        ChatToolCall(None, None, Some(ChatToolFunction(Some(<<" ">>), None))),
        ChatToolCall(Some(<<" ">>), None,
                     Some(ChatToolFunction(Some(<<"g">>), None)))>>,
      <<ChatToolCall(None, None, None),
        ChatToolCall(None, None, Some(ChatToolFunction(None, None))),
        ChatToolCall(Some(S_call_ \o <<"1">>), None,
                     Some(ChatToolFunction(Some(<<"f">>), None))),
        ChatToolCall(None, None, Some(ChatToolFunction(Some(<<"g">>), None)))>> }

ChatMessage(role, content, tool_call_id, calls) ==
    [role |-> role, content |-> content, tool_call_id |-> tool_call_id,
     tool_calls |-> calls]

\* Messages: every role with a string or no content, a user message with
\* every content, assistant messages with arrays and with tool calls, tool
\* messages with and without a tool-call id.  (`name` is not read by
\* into_prompt.)
Messages ==
    { ChatMessage(r, c, None, None) : r \in Roles, c \in {JString(S_hi), JNull} }
    \cup { ChatMessage(S_user, c, None, None) : c \in Contents }
    \cup { ChatMessage(S_assistant, c, None, None) :
             c \in { JArray(<<TextBlock(<<"t">>), ImageBlock>>),
                     JArray(<<JString(<<"a">>), VideoBlock>>), JNumber(42) } }
    \cup { ChatMessage(S_tool, c, id, None) :
             c \in { JString(<<"o">>), JNumber(42), JNull,
                     JArray(<<TextBlock(<<"t">>), JNumber(42), BareTextObject,
                              VideoBlock>>) },
             id \in {None, Some(S_c1)} }
    \cup { ChatMessage(S_assistant, c, None, Some(l)) :
             c \in {JNull, JString(S_hi)}, l \in ToolCallLists }

RequestTool(kind, function) == [kind |-> kind, function |-> function]
RequestToolFunction(name, description, strict, parameters) ==
    [name |-> name, description |-> description, strict |-> strict,
     parameters |-> parameters]

\* Tool declarations: function tools (two of them named `f`), a declaration
\* whose schema does not parse, and declarations of another type, without a
\* function, without a name or with a blank name.
Tools ==
    { RequestTool(S_function, Some(RequestToolFunction(Some(<<"f">>), None, None, None))),
      RequestTool(<<"F", "u", "n", "c", "t", "i", "o", "n">>,
                  Some(RequestToolFunction(Some(<<" ", "f", " ">>), Some(<<" ", "d">>),
                       Some(TRUE),
                       Some(JObject([properties |->
                                        JObject([x |-> JObject(EmptyMap)])]))))),
      RequestTool(S_function,
                  Some(RequestToolFunction(Some(<<"g">>), Some(<<" ">>), None,
                       Some(JObject([type |-> JString(<<"n", "u", "l", "l">>)]))))),
      RequestTool(S_function,
                  Some(RequestToolFunction(Some(<<"g">>), None, Some(FALSE),
                       Some(JBool(TRUE))))),
      RequestTool(<<"w", "e", "b">>,
                  Some(RequestToolFunction(Some(<<"w">>), None, None, None))),
      RequestTool(<<>>, Some(RequestToolFunction(Some(<<"h">>), None, None, None))),
      RequestTool(S_function, None),
      RequestTool(S_function, Some(RequestToolFunction(None, None, None, None))),
      RequestTool(S_function,
                  Some(RequestToolFunction(Some(<<" ", " ">>), None, None, None))) }

ChatCompletionRequest(model, messages, tools, parallel_tool_calls) ==
    [model |-> model, messages |-> messages, tools |-> tools,
     parallel_tool_calls |-> parallel_tool_calls]

\* Model names: absent (the default applies) and padded.
Models == { <<>>, <<" ", "m", " ">> }

\* The message lists of the requests that vary the tool declarations.
FewMessageLists == { <<>>, <<ChatMessage(S_user, JString(S_hi), None, None)>> }

\* The call of into_prompt on a request: it consumes the request.
IntoPrompt(request) ==
    /\ norm_request = None
    /\ norm_request' = Some(request)
    /\ norm_result' = into_prompt(request)
    /\ norm_pushed' = PushedPerMessage(request)

\* ------------------------------------------------------------ prompt.rs

\* Number of calls made on one Prompt.
MaxCalls == 2

\* pub const CODEX_SERVE_PROMPT_MARKER
CODEX_SERVE_PROMPT_MARKER ==
    <<"C", "o", "d", "e", "x", " ", "S", "e", "r", "v", "e", " ", "c", "o",
      "m", "p", "a", "t", "i", "b", "i", "l", "i", "t", "y", " ", "m", "o",
      "d", "e">>

\* first line of the block
LineNoShell ==
    <<"T", "h", "i", "s", " ", "c", "o", "m", "p", "a", "t", "i", "b", "i",
      "l", "i", "t", "y", " ", "s", "h", "i", "m", " ", "c", "a", "n", "n",
      "o", "t", " ", "r", "u", "n", " ", "s", "h", "e", "l", "l", "s", ",",
      " ", "e", "d", "i", "t", " ", "f", "i", "l", "e", "s", ",", " ", "o",
      "r", " ", "i", "n", "s", "p", "e", "c", "t", " ", "y", "o", "u", "r",
      " ", "w", "o", "r", "k", "s", "p", "a", "c", "e", ".">>

\* second line of the block (EMDASH stands for the one character U+2014)
LineNeverClaim ==
    <<"N", "e", "v", "e", "r", " ", "c", "l", "a", "i", "m", " ", "y", "o",
      "u", " ", "e", "x", "e", "c", "u", "t", "e", "d", " ", "c", "o", "m",
      "m", "a", "n", "d", "s", " ", "o", "r", " ", "e", "d", "i", "t", "s",
      "EMDASH", "d", "e", "s", "c", "r", "i", "b", "e", " ", "w", "h", "a",
      "t", " ", "t", "h", "e", " ", "u", "s", "e", "r", " ", "s", "h", "o",
      "u", "l", "d", " ", "r", "u", "n", " ", "i", "n", "s", "t", "e", "a",
      "d", " ", "a", "n", "d", " ", "w", "a", "i", "t", " ", "f", "o", "r",
      " ", "t", "h", "e", "i", "r", " ", "r", "e", "s", "u", "l", "t", "s",
      ".">>

\* third line when a WebSearch tool is declared (BACKTICK stands for the
\* one character U+0060)
LineWebSearch ==
    <<"Y", "o", "u", " ", "m", "a", "y", " ", "i", "n", "v", "o", "k", "e",
      " ", "t", "h", "e", " ", "BACKTICK", "w", "e", "b", "_", "s", "e", "a", "r",
      "c", "h", "BACKTICK", " ", "t", "o", "o", "l", " ", "w", "h", "e", "n", " ",
      "y", "o", "u", " ", "t", "r", "u", "l", "y", " ", "n", "e", "e", "d",
      " ", "n", "e", "w", " ", "i", "n", "f", "o", "r", "m", "a", "t", "i",
      "o", "n", ".">>

\* third line otherwise
LineNoTools ==
    <<"N", "o", " ", "t", "o", "o", "l", "s", " ", "a", "r", "e", " ", "a",
      "v", "a", "i", "l", "a", "b", "l", "e", " ", "f", "o", "r", " ", "t",
      "h", "i", "s", " ", "c", "o", "n", "v", "e", "r", "s", "a", "t", "i",
      "o", "n", ".">>

\* label of the section that carries the caller's system text
OriginalSystemLabel ==
    <<"\n", "\n", "T", "h", "e", " ", "o", "r", "i", "g", "i", "n", "a",
      "l", " ", "s", "y", "s", "t", "e", "m", " ", "m", "e", "s", "s", "a",
      "g", "e", " ", "f", "o", "l", "l", "o", "w", "s", ":", "\n">>

\* str::contains
Contains(text, pattern) ==
    \E i \in 0..(Len(text) - Len(pattern)) :
        SubSeq(text, i + 1, i + Len(pattern)) = pattern

\* ToolSpec::WebSearch {}
WebSearch == [type |-> "WebSearch"]

IsWebSearch(tool) == tool.type = "WebSearch"

\* ensure_web_search_tool, were WebSearch pushed whenever it is allowed
ensure_web_search_tool_AlwaysPush(prompt, allow_web_search) ==
    IF allow_web_search
    THEN [prompt |-> [prompt EXCEPT !.tools = Append(@, WebSearch)],
          returned |-> TRUE]
    ELSE [prompt |-> prompt,
          returned |-> \E i \in 1..Len(prompt.tools) : IsWebSearch(prompt.tools[i])]

\* ensure_web_search_tool: the Prompt after the call and the flag returned
ensure_web_search_tool(prompt, allow_web_search) ==
    LET has_web_search ==
            \E i \in 1..Len(prompt.tools) : IsWebSearch(prompt.tools[i])
    IN IF allow_web_search /\ ~has_web_search
       THEN [prompt |-> [prompt EXCEPT !.tools = Append(@, WebSearch)],
             returned |-> TRUE]
       ELSE [prompt |-> prompt, returned |-> has_web_search]

\* DeveloperPromptMode
DeveloperPromptModes == {"Disabled", "Default", "Override"}

\* has_existing_codex_serve_message, were the marker never looked for
has_existing_codex_serve_message_Never(prompt) == FALSE

\* has_existing_codex_serve_message
has_existing_codex_serve_message(prompt) ==
    \E i \in 1..Len(prompt.input) :
        LET item == prompt.input[i] IN
        /\ item.type = "Message"
        /\ item.role = S_developer
        /\ \E k \in 1..Len(item.content) :
              /\ item.content[k].type = "InputText"
              /\ Contains(item.content[k].text, CODEX_SERVE_PROMPT_MARKER)

\* The lines of the block, each formatted as "- {line}" and joined by "\n".
BlockLines(has_web_search) ==
    JoinLines([k \in 1..3 |->
        <<"-", " ">> \o
        <<LineNoShell, LineNeverClaim,
          IF has_web_search THEN LineWebSearch ELSE LineNoTools>>[k]])

\* build_developer_prompt_text
build_developer_prompt_text(has_web_search, original_system) ==
    LET text == CODEX_SERVE_PROMPT_MARKER \o <<":", "\n">> \o
                BlockLines(has_web_search)
    IN IF IsSome(original_system)
       THEN text \o OriginalSystemLabel \o Unwrap(original_system)
       ELSE text

\* The first match of inject_developer_prompt: whether the mode returns
\* before anything is looked at.
ModeReturns(system_prompt, mode) ==
    \/ mode = "Disabled"
    \/ mode = "Default" /\ IsSome(system_prompt)

\* original_system, were the system text passed on untrimmed
OriginalSystem_Untrimmed(system_prompt, mode) ==
    IF mode = "Override" THEN system_prompt ELSE None

\* original_system of inject_developer_prompt
OriginalSystem(system_prompt, mode) ==
    IF mode = "Override" /\ IsSome(system_prompt)
    THEN (IF trim(Unwrap(system_prompt)) = <<>> THEN None
          ELSE Some(trim(Unwrap(system_prompt))))
    ELSE None

\* prompt.input.insert(0, item), were the item pushed at the end
InsertFirst_Push(input, item) == Append(input, item)

\* prompt.input.insert(0, item)
InsertFirst(input, item) == <<item>> \o input

\* The developer message inject_developer_prompt generates.
DeveloperMessage(has_web_search, system_prompt, mode) ==
    [type |-> "Message", role |-> S_developer,
     content |->
        <<[type |-> "InputText",
           text |-> build_developer_prompt_text(
                        has_web_search, OriginalSystem(system_prompt, mode))]>>]

\* inject_developer_prompt: the Prompt after the call
inject_developer_prompt(prompt, has_web_search, system_prompt, mode) ==
    IF ModeReturns(system_prompt, mode) THEN prompt
    ELSE IF has_existing_codex_serve_message(prompt) THEN prompt
    ELSE [prompt EXCEPT !.input =
             InsertFirst(@, DeveloperMessage(has_web_search, system_prompt, mode))]

\* ------------------------------------------- the Prompts of the model

FunctionTool(name) ==
    [type |-> "Function", name |-> name, description |-> <<>>,
     strict |-> FALSE, parameters |-> EmptyObjectSchema]

TextMessage(role, text) ==
    [type |-> "Message", role |-> role,
     content |-> <<[type |-> "InputText", text |-> text]>>]

\* A text that holds the marker between other characters.
S_with_marker == <<"s", "e", "e", " ">> \o CODEX_SERVE_PROMPT_MARKER \o <<"!">>

\* Tool lists with at most one WebSearch declaration, at either end and
\* between function tools.
InitialTools ==
    { <<>>, <<FunctionTool(<<"f">>)>>, <<WebSearch>>,
      <<FunctionTool(<<"f">>), FunctionTool(<<"g">>)>>,
      <<FunctionTool(<<"f">>), WebSearch, FunctionTool(<<"g">>)>> }

\* Inputs: empty, without a developer message, with a developer message
\* without the marker, with the marker on a user message only, and with a
\* developer message that carries the marker, first or later in the input
\* and in the first or a later content item.
InitialInputs ==
    { <<>>,
      <<TextMessage(S_user, S_hi)>>,
      <<TextMessage(S_developer, <<"x">>), TextMessage(S_user, S_hi)>>,
      <<TextMessage(S_user, S_with_marker)>>,
      <<TextMessage(S_developer, build_developer_prompt_text(FALSE, None)),
        TextMessage(S_user, S_hi)>>,
      <<TextMessage(S_user, S_hi),
        [type |-> "Message", role |-> S_developer,
         content |-> <<InputImage(<<"u">>),
                       [type |-> "InputText", text |-> S_with_marker]>>]>> }

\* Prompt: the fields the two functions read or write.
Prompt(input, tools) == [input |-> input, tools |-> tools]

\* System texts: absent, empty, blank, and padded on both sides.
S_keep_this == <<"k", "e", "e", "p", " ", "t", "h", "i", "s">>
SystemTexts ==
    { None, Some(<<>>), Some(<<" ", "\n">>),
      Some(<<" ">> \o S_keep_this \o <<"\n">>) }

\* A Prompt is handed over for augmentation.
NewPrompt(prompt) ==
    /\ cur_prompt = None
    /\ cur_prompt' = Some(prompt)
    /\ prompt_initial' = Some(prompt)
    /\ UNCHANGED <<last_call, call_count, injected_count>>

\* A call of ensure_web_search_tool on the Prompt.
EnsureWebSearchTool(allow_web_search) ==
    LET result == ensure_web_search_tool(Unwrap(cur_prompt), allow_web_search) IN
    /\ IsSome(cur_prompt)
    /\ call_count < MaxCalls
    /\ cur_prompt' = Some(result.prompt)
    /\ last_call' = Some([fn |-> "ensure_web_search_tool",
                          allow_web_search |-> allow_web_search,
                          before |-> Unwrap(cur_prompt),
                          returned |-> result.returned])
    /\ call_count' = call_count + 1
    /\ UNCHANGED <<prompt_initial, injected_count>>

\* A call of inject_developer_prompt on the Prompt.
InjectDeveloperPrompt(has_web_search, system_prompt, mode) ==
    LET after == inject_developer_prompt(Unwrap(cur_prompt), has_web_search,
                                         system_prompt, mode) IN
    /\ IsSome(cur_prompt)
    /\ call_count < MaxCalls
    /\ cur_prompt' = Some(after)
    /\ last_call' = Some([fn |-> "inject_developer_prompt",
                          has_web_search |-> has_web_search,
                          system_prompt |-> system_prompt,
                          mode |-> mode,
                          before |-> Unwrap(cur_prompt)])
    /\ call_count' = call_count + 1
    /\ injected_count' = IF after = Unwrap(cur_prompt) THEN injected_count
                         ELSE injected_count + 1
    /\ UNCHANGED prompt_initial

\* ------------------------------------- the schema fragments of the model

\* A map with a field added when a value is given for it.
WithField(map, key, value) ==
    IF IsSome(value) THEN MapInsert(map, key, Unwrap(value)) ELSE map

Optional(values) == {None} \cup { Some(v) : v \in values }

StringSchema == JObject([type |-> JString(S_string)])
NumberSchema == JObject([type |-> JString(S_number)])
ArrayOfStrings == JObject([type |-> JString(S_array), items |-> StringSchema])

\* Values without nested schemas: every kind of scalar, objects with and
\* without a `type`, with a hint, with a `type` array.
SchemaLeaves ==
    { JNull, JBool(TRUE), JBool(FALSE), JString(<<"s">>), JNumber(1),
      JObject(EmptyMap), StringSchema,
      JObject([minimum |-> JNumber(0)]),
      JObject([type |-> JArray(<<JString(<<"n", "u", "l", "l">>),
                                 JString(S_integer)>>)]),
      JObject([type |-> JString(S_array)]) }

\* The alternatives of a composition.
Alternatives == { StringSchema, ArrayOfStrings, NumberSchema, JObject(EmptyMap) }

\* Objects with any of a `type`, one property, `items`, two alternatives in
\* either order, and `additionalProperties`.
SchemaObjects ==
    { JObject(
        WithField(WithField(WithField(WithField(WithField(EmptyMap,
            "type", type), "properties", properties), "items", items),
            "anyOf", anyOf), "additionalProperties", additional)) :
        type \in Optional({JString(S_object), JString(S_string), JNumber(1)}),
        properties \in Optional({ JObject([x |-> v]) :
                                    v \in {JBool(TRUE), JObject(EmptyMap),
                                           JString(<<"s">>)} }),
        items \in Optional({JBool(FALSE), JObject(EmptyMap),
                            JArray(<<JBool(TRUE), NumberSchema>>)}),
        anyOf \in Optional({ JArray(<<a, b>>) :
                               a \in {JBool(TRUE), JObject(EmptyMap)},
                               b \in {StringSchema} }),
        additional \in Optional({JBool(TRUE), JBool(FALSE), JObject(EmptyMap),
                                 JObject([minimum |-> JNumber(0)])}) }

\* Tool parameters with one property that lists alternatives under `anyOf`
\* and has no `type`: every ordering of every one or two alternatives.
PropertyWithAnyOf ==
    { JObject([properties |-> JObject([x |-> JObject([anyOf |-> JArray(alts)])])]) :
        alts \in { <<a>> : a \in Alternatives }
                 \cup { <<a, b>> : a \in Alternatives, b \in Alternatives } }

SchemaFragments ==
    SchemaLeaves \cup SchemaObjects \cup PropertyWithAnyOf
    \cup { JArray(<<>>), JArray(<<JBool(TRUE), JObject(EmptyMap), JNumber(1)>>) }

\* The call of sanitize_json_schema on a value.
Sanitize(value) ==
    /\ schema_input = None
    /\ schema_input' = Some(value)
    /\ schema_output' = Some(sanitize_json_schema(value))
    /\ schema_again' = schema_again

\* The call of sanitize_json_schema on the value the first call returned.
SanitizeAgain ==
    /\ IsSome(schema_output)
    /\ schema_again = None
    /\ schema_again' = Some(sanitize_json_schema(Unwrap(schema_output)))
    /\ UNCHANGED <<schema_input, schema_output>>

\* ------------------------------------- server: chat_completions

\* AppState::ensure_authenticated, were every caller let through
ensure_authenticated_Open(authenticated) == Ok(<<>>)

\* AppState::ensure_authenticated, for what AuthController::is_authenticated
\* returns
ensure_authenticated(authenticated) ==
    IF authenticated THEN Ok(<<>>) ELSE Err("Unauthorized")

\* What ChatExecutor::stream or ::complete returns to the handler: a
\* response, or the error of an unknown model or of the upstream call.
EngineResults == { Ok("response"), BadRequest, Err("Internal") }

\* The messages of the requests the handler is given: valid ones, one whose
\* content fails to convert, and a tool message that is skipped.
HandlerMessages ==
    { ChatMessage(S_user, JString(S_hi), None, None),
      ChatMessage(S_system, JString(S_hi), None, None),
      ChatMessage(S_user, JNumber(42), None, None),
      ChatMessage(S_tool, JString(<<"o">>), None, None) }

\* axum hands the deserialized body to the handler.
Receive(request, stream) ==
    /\ handler_pc = "idle"
    /\ handler_pc' = "received"
    /\ handler_payload' = Some([body |-> request, stream |-> stream])
    /\ UNCHANGED <<is_authenticated, prompt_payload, handler_calls,
                   handler_response>>

\* state.ensure_authenticated()?
EnsureAuthenticated(authenticated) ==
    LET checked == ensure_authenticated(authenticated) IN
    /\ handler_pc = "received"
    /\ is_authenticated' = Some(authenticated)
    /\ handler_calls' = Append(handler_calls, "ensure_authenticated")
    /\ IF checked.ok
       THEN handler_pc' = "authenticated" /\ UNCHANGED handler_response
       ELSE handler_pc' = "done" /\ handler_response' = checked
    /\ UNCHANGED <<handler_payload, prompt_payload>>

\* let prompt_payload = payload.into_prompt()?
HandlerIntoPrompt ==
    LET result == into_prompt(Unwrap(handler_payload).body) IN
    /\ handler_pc = "authenticated"
    /\ handler_calls' = Append(handler_calls, "into_prompt")
    /\ IF result.ok
       THEN /\ handler_pc' = "normalized"
            /\ prompt_payload' = Some(result.value)
            /\ UNCHANGED handler_response
       ELSE /\ handler_pc' = "done"
            /\ handler_response' = result
            /\ UNCHANGED prompt_payload
    /\ UNCHANGED <<handler_payload, is_authenticated>>

\* stream_chat_response(state.engine(), ..).await? when a stream was
\* requested, state.engine().complete(..).await? otherwise: the executor
\* resolves the model and calls the engine.
HandlerEngineCall(result) ==
    /\ handler_pc = "normalized"
    /\ handler_pc' = "done"
    /\ handler_calls' =
          Append(handler_calls,
                 IF Unwrap(handler_payload).stream THEN "engine.stream"
                 ELSE "engine.complete")
    /\ handler_response' =
          IF ~result.ok THEN result
          ELSE IF Unwrap(handler_payload).stream THEN Ok("event-stream")
          ELSE Ok("json")
    /\ UNCHANGED <<handler_payload, is_authenticated, prompt_payload>>

\* ------------------------------- server/executor.rs: config_for_model

\* Number of tasks that call config_for_model.
MaxTasks == 2

Tasks == 1..MaxTasks

\* self.config.model: the model of the configuration loaded at start.
ConfiguredModel == <<"m", "0">>

\* Arc::clone(&self.config)
StartupConfig == [model |-> ConfiguredModel, loaded_by |-> 0]

\* The names asked for: blank, the configured model, and other models, one
\* of them also padded.
RequestedModels ==
    { <<" ">>, ConfiguredModel, <<"a">>, <<" ", "a">>, <<"b">> }

\* HashMap::insert, were an entry of the same key left in place
CacheInsert_Keep(cache, key, config) ==
    cache \cup {[key |-> key, config |-> config]}

\* HashMap::insert: the entry of the key, if any, is replaced.
CacheInsert(cache, key, config) ==
    { e \in cache : e.key # key } \cup {[key |-> key, config |-> config]}

\* HashMap::get
CacheGet(cache, key) ==
    IF \E e \in cache : e.key = key
    THEN Some((CHOOSE e \in cache : e.key = key).config) ELSE None

\* Whether no task that waits for the write guard is ahead of task t in the
\* queue of the RwLock (tokio's RwLock serves its waiters in order).
NoWriterAhead(t) ==
    \A i \in 1..Len(lock_queue) :
        lock_queue[i] = t =>
            \A j \in 1..(i - 1) : task_pc[lock_queue[j]] # "write_wait"

WithoutTask(queue, t) == SelectSeq(queue, LAMBDA u : u # t)

\* config_for_model up to its first await: the checks of the name, then
\* self.config_cache.read()
CallConfigForModel(t, name) ==
    LET requested == trim(name) IN
    /\ task_pc[t] = "idle"
    /\ task_requested' = [task_requested EXCEPT ![t] = Some(requested)]
    /\ IF requested = <<>>
       THEN /\ task_pc' = [task_pc EXCEPT ![t] = "done"]
            /\ task_result' = [task_result EXCEPT ![t] = BadRequest]
            /\ UNCHANGED lock_queue
       ELSE IF requested = ConfiguredModel
       THEN /\ task_pc' = [task_pc EXCEPT ![t] = "done"]
            /\ task_result' = [task_result EXCEPT ![t] = Ok(StartupConfig)]
            /\ UNCHANGED lock_queue
       ELSE /\ task_pc' = [task_pc EXCEPT ![t] = "read_wait"]
            /\ lock_queue' = Append(lock_queue, t)
            /\ UNCHANGED task_result
    /\ UNCHANGED <<task_config, task_loads, config_cache, lock_readers,
                   lock_writer>>

\* self.config_cache.read().await completes: no writer holds the lock or
\* waits ahead.
AcquireRead(t) ==
    /\ task_pc[t] = "read_wait"
    /\ lock_writer = None
    /\ NoWriterAhead(t)
    /\ task_pc' = [task_pc EXCEPT ![t] = "lookup"]
    /\ lock_readers' = lock_readers \cup {t}
    /\ lock_queue' = WithoutTask(lock_queue, t)
    /\ UNCHANGED <<task_requested, task_config, task_loads, task_result,
                   config_cache, lock_writer>>

\* .get(requested) under the read guard; the guard is dropped with the
\* `if let`, on a hit by the return and on a miss before the load.
Lookup(t) ==
    LET existing == CacheGet(config_cache, Unwrap(task_requested[t])) IN
    /\ task_pc[t] = "lookup"
    /\ lock_readers' = lock_readers \ {t}
    /\ IF IsSome(existing)
       THEN /\ task_pc' = [task_pc EXCEPT ![t] = "done"]
            /\ task_result' = [task_result EXCEPT ![t] = Ok(Unwrap(existing))]
       ELSE /\ task_pc' = [task_pc EXCEPT ![t] = "load"]
            /\ UNCHANGED task_result
    /\ UNCHANGED <<task_requested, task_config, task_loads, config_cache,
                   lock_writer, lock_queue>>

\* Config::load_with_cli_overrides(..).await completes, with a Config or
\* with an error that map_err turns into BadRequest; after a Config,
\* self.config_cache.write()
Load(t, loaded) ==
    /\ task_pc[t] = "load"
    /\ task_loads' = [task_loads EXCEPT ![t] = @ + 1]
    /\ IF loaded
       THEN /\ task_config' =
                [task_config EXCEPT ![t] =
                    Some([model |-> Unwrap(task_requested[t]), loaded_by |-> t])]
            /\ task_pc' = [task_pc EXCEPT ![t] = "write_wait"]
            /\ lock_queue' = Append(lock_queue, t)
            /\ UNCHANGED task_result
       ELSE /\ task_pc' = [task_pc EXCEPT ![t] = "done"]
            /\ task_result' = [task_result EXCEPT ![t] = BadRequest]
            /\ UNCHANGED <<task_config, lock_queue>>
    /\ UNCHANGED <<task_requested, config_cache, lock_readers, lock_writer>>

\* self.config_cache.write().await completes: the task is the oldest waiter
\* and nobody holds the lock.
AcquireWrite(t) ==
    /\ task_pc[t] = "write_wait"
    /\ lock_queue # <<>> /\ Head(lock_queue) = t
    /\ lock_writer = None
    /\ lock_readers = {}
    /\ task_pc' = [task_pc EXCEPT ![t] = "insert"]
    /\ lock_writer' = Some(t)
    /\ lock_queue' = Tail(lock_queue)
    /\ UNCHANGED <<task_requested, task_config, task_loads, task_result,
                   config_cache, lock_readers>>

\* cache.insert(..); Ok(config): the write guard is dropped by the return.
Insert(t) ==
    /\ task_pc[t] = "insert"
    /\ config_cache' = CacheInsert(config_cache, Unwrap(task_requested[t]),
                                   Unwrap(task_config[t]))
    /\ lock_writer' = None
    /\ task_pc' = [task_pc EXCEPT ![t] = "done"]
    /\ task_result' = [task_result EXCEPT ![t] = Ok(Unwrap(task_config[t]))]
    /\ UNCHANGED <<task_requested, task_config, task_loads, lock_readers,
                   lock_queue>>

\* ----------------------------------------------------- specifications

InitStream ==
    /\ pc = "loop"
    /\ forward_result = "running"
    /\ consumed = 0
    /\ stream_response_id = "resp_stream"
    /\ sent_role = FALSE
    /\ usage = UsageDefault
    /\ text_deltas_since_last_message = FALSE
    /\ streamed_tool_calls = <<>>
    /\ tool_call_indices = EmptyMap
    /\ tool_call_arg_progress = EmptyMap
    /\ next_tool_index = 0
    /\ uuid_counter = 0
    /\ sent = <<>>
    /\ dropped = <<>>
    /\ received = 0
    /\ rxOpen = TRUE
    /\ last_args = EmptyMap
    /\ cumulative = EmptyMap
    /\ first_seen = <<>>
    /\ msg_done_mark = 0

InitAgg ==
    /\ agg_pc = "loop"
    /\ agg_consumed = 0
    /\ streamed_text = <<>>
    /\ final_text = None
    /\ response_id = None
    /\ agg_usage = UsageDefault
    /\ tool_calls = <<>>
    /\ agg_tool_call_indices = EmptyMap
    /\ reasoning_summary_parts = EmptyMap
    /\ agg_uuid_counter = 0
    /\ agg_result = None
    /\ agg_first_seen = <<>>
    /\ agg_last_call = EmptyMap
    /\ agg_replacements = 0
    /\ agg_last_text = None
    /\ agg_error_seen = FALSE
    /\ agg_summary_deltas = <<>>

InitUsage ==
    /\ usage_source = None
    /\ usage_reported = UsageDefault

InitNorm ==
    /\ norm_request = None
    /\ norm_result = None
    /\ norm_pushed = <<>>

InitSchema ==
    /\ schema_input = None
    /\ schema_output = None
    /\ schema_again = None

InitHandler ==
    /\ handler_pc = "idle"
    /\ handler_payload = None
    /\ is_authenticated = None
    /\ prompt_payload = None
    /\ handler_calls = <<>>
    /\ handler_response = None

InitCache ==
    /\ task_pc = [t \in Tasks |-> "idle"]
    /\ task_requested = [t \in Tasks |-> None]
    /\ task_config = [t \in Tasks |-> None]
    /\ task_loads = [t \in Tasks |-> 0]
    /\ task_result = [t \in Tasks |-> None]
    /\ config_cache = {}
    /\ lock_readers = {}
    /\ lock_writer = None
    /\ lock_queue = <<>>

InitPrompt ==
    /\ cur_prompt = None
    /\ prompt_initial = None
    /\ last_call = None
    /\ call_count = 0
    /\ injected_count = 0

Init == InitStream /\ InitAgg /\ InitUsage /\ InitNorm /\ InitPrompt /\ InitSchema /\ InitHandler /\ InitCache

NextStream ==
    \/ \E delta \in DeltaTexts : OnOutputTextDelta(delta) /\ UNCHANGED outsideStream
    \/ \E item \in Items : OnOutputItemAdded(item) /\ UNCHANGED outsideStream
    \/ \E item \in Items : OnOutputItemDone(item) /\ UNCHANGED outsideStream
    \/ \E delta \in ReasoningTexts, i \in SummaryIndices :
            OnReasoningSummaryDelta(delta, i) /\ UNCHANGED outsideStream
    \/ \E i \in SummaryIndices : OnReasoningSummaryPartAdded(i) /\ UNCHANGED outsideStream
    \/ \E delta \in ReasoningTexts : OnReasoningContentDelta(delta) /\ UNCHANGED outsideStream
    \/ \E rid \in ResponseIds, tu \in {None} \cup {Some(u) : u \in TokenUsages} :
            OnCompleted(rid, tu) /\ UNCHANGED outsideStream
    \/ \E type \in {"RateLimits", "Created"} : OnIgnored(type) /\ UNCHANGED outsideStream
    \/ OnError /\ UNCHANGED outsideStream
    \/ OnStreamEnd /\ UNCHANGED outsideStream
    \/ SendDone /\ UNCHANGED outsideStream
    \/ ConsumerRecv /\ UNCHANGED outsideStream
    \/ ConsumerDisconnect /\ UNCHANGED outsideStream

SpecStream == Init /\ [][NextStream]_vars

\* The engine values of the runs that are checked for termination: a message
\* item, a reasoning item, and tool-call items of one call id, among them the
\* pair ("a", then a 2-byte character) whose slice panics.
TerminationItems ==
    { [type |-> "Message", role |-> "assistant", text |-> Some(<<"a">>)],
      [type |-> "Reasoning"],
      [type |-> "FunctionCall", call_id |-> "c1", name |-> "f", arguments |-> <<"a">>],
      [type |-> "FunctionCall", call_id |-> "c1", name |-> "f",
       arguments |-> <<"E1", "E2">>] }

\* forward_sse_events and the consumer, over the values above.
NextTermination ==
    \/ OnOutputTextDelta(<<"a">>) /\ UNCHANGED outsideStream
    \/ \E item \in TerminationItems : OnOutputItemAdded(item) /\ UNCHANGED outsideStream
    \/ \E item \in TerminationItems : OnOutputItemDone(item) /\ UNCHANGED outsideStream
    \/ OnReasoningSummaryDelta(<<"r">>, 0) /\ UNCHANGED outsideStream
    \/ OnReasoningSummaryPartAdded(0) /\ UNCHANGED outsideStream
    \/ OnReasoningContentDelta(<<"r">>) /\ UNCHANGED outsideStream
    \/ \E rid \in ResponseIds : OnCompleted(rid, None) /\ UNCHANGED outsideStream
    \/ OnIgnored("Created") /\ UNCHANGED outsideStream
    \/ OnError /\ UNCHANGED outsideStream
    \/ OnStreamEnd /\ UNCHANGED outsideStream
    \/ SendDone /\ UNCHANGED outsideStream
    \/ ConsumerRecv /\ UNCHANGED outsideStream
    \/ ConsumerDisconnect /\ UNCHANGED outsideStream

\* A step of the producer task: it takes an engine event, leaves the loop or
\* sends the [DONE] marker (the consumer's steps change neither pc nor
\* consumed).
ProducerStep == NextTermination /\ <<pc, consumed>>' # <<pc, consumed>>

\* The spawned task runs whenever it can proceed (the engine's stream yields
\* an event or ends, a pending send returns), and the transport keeps polling
\* the ReceiverStream while events are queued.
SpecStreamFair ==
    /\ Init
    /\ [][NextTermination]_vars
    /\ WF_vars(ProducerStep)
    /\ WF_vars(ConsumerRecv /\ UNCHANGED outsideStream)


\* One engine event sequence consumed by both modes: each engine event is
\* handled by forward_sse_events and by aggregate_response_stream in the same
\* step. The sequence holds no error and the consumer of the incremental
\* mode keeps reading.
NextBoth ==
    \/ \E delta \in DeltaTexts :
            OnOutputTextDelta(delta) /\ AggOnOutputTextDelta(delta) /\ UNCHANGED outsideBoth
    \/ \E item \in Items :
            OnOutputItemAdded(item) /\ AggOnOutputItem(item) /\ UNCHANGED outsideBoth
    \/ \E item \in Items :
            OnOutputItemDone(item) /\ AggOnOutputItem(item) /\ UNCHANGED outsideBoth
    \/ \E delta \in ReasoningTexts, i \in SummaryIndices :
            /\ OnReasoningSummaryDelta(delta, i)
            /\ AggOnReasoningSummaryDelta(delta, i)
            /\ UNCHANGED outsideBoth
    \/ \E rid \in ResponseIds, tu \in {None} \cup {Some(u) : u \in TokenUsages} :
            OnCompleted(rid, tu) /\ AggOnCompleted(rid, tu) /\ UNCHANGED outsideBoth
    \/ SendDone /\ UNCHANGED outsideStream
    \/ ConsumerRecv /\ UNCHANGED outsideStream

SpecBoth == Init /\ [][NextBoth]_vars

NextAgg ==
    \/ AggOnError /\ UNCHANGED outsideAgg
    \/ \E delta \in DeltaTexts : AggOnOutputTextDelta(delta) /\ UNCHANGED outsideAgg
    \/ \E item \in Items : AggOnOutputItem(item) /\ UNCHANGED outsideAgg
    \/ \E delta \in ReasoningTexts \cup {<<" ">>}, i \in SummaryIndices :
            AggOnReasoningSummaryDelta(delta, i) /\ UNCHANGED outsideAgg
    \/ \E i \in SummaryIndices : AggOnReasoningSummaryPartAdded(i) /\ UNCHANGED outsideAgg
    \/ \E rid \in ResponseIds, tu \in {None} \cup {Some(u) : u \in TokenUsages} :
            AggOnCompleted(rid, tu) /\ UNCHANGED outsideAgg
    \/ \E type \in {"RateLimits", "Created", "ReasoningContentDelta"} :
            AggOnIgnored(type) /\ UNCHANGED outsideAgg
    \/ AggOnStreamEnd /\ UNCHANGED outsideAgg

SpecAgg == Init /\ [][NextAgg]_vars

\* Usage::from(value)
ConvertUsage(value) ==
    /\ usage_source = None
    /\ usage_source' = Some(value)
    /\ usage_reported' = UsageFrom(value)

NextUsage ==
    /\ usage_source = None
    /\ \E value \in UsageSources : ConvertUsage(value) /\ UNCHANGED outsideUsage

SpecUsage == Init /\ [][NextUsage]_vars

\* Requests that vary the message list, and requests that vary the other
\* fields with and without a message.  (`stream` is not read by into_prompt.)
NextNorm ==
    \/ /\ norm_request = None
       /\ \E n \in 0..MaxMessages : \E messages \in [1..n -> Messages] :
            /\ IntoPrompt(ChatCompletionRequest(<<>>, messages, <<>>, None))
            /\ UNCHANGED outsideNorm
    \/ /\ norm_request = None
       /\ \E n \in 0..MaxTools : \E tools \in [1..n -> Tools] :
           \E model \in Models, messages \in FewMessageLists,
              parallel_tool_calls \in {None, Some(TRUE), Some(FALSE)} :
            /\ IntoPrompt(ChatCompletionRequest(model, messages, tools,
                                                parallel_tool_calls))
            /\ UNCHANGED outsideNorm

SpecNorm == Init /\ [][NextNorm]_vars

\* Prompts, and on each up to MaxCalls calls of the two functions with every
\* argument.
NextPrompt ==
    \/ /\ cur_prompt = None
       /\ \E input \in InitialInputs, tools \in InitialTools :
            NewPrompt(Prompt(input, tools)) /\ UNCHANGED outsidePrompt
    \/ \E allow_web_search \in BOOLEAN :
            EnsureWebSearchTool(allow_web_search) /\ UNCHANGED outsidePrompt
    \/ \E has_web_search \in BOOLEAN, system_prompt \in SystemTexts,
          mode \in DeveloperPromptModes :
            InjectDeveloperPrompt(has_web_search, system_prompt, mode)
            /\ UNCHANGED outsidePrompt

SpecPrompt == Init /\ [][NextPrompt]_vars

NextSchema ==
    \/ /\ schema_input = None
       /\ \E value \in SchemaFragments : Sanitize(value) /\ UNCHANGED outsideSchema
    \/ SanitizeAgain /\ UNCHANGED outsideSchema

SpecSchema == Init /\ [][NextSchema]_vars

\* One request, of up to MaxMessages messages, from a caller that is or is
\* not logged in.
NextHandler ==
    \/ /\ handler_pc = "idle"
       /\ \E n \in 0..MaxMessages : \E messages \in [1..n -> HandlerMessages] :
           \E model \in Models, stream \in BOOLEAN :
            /\ Receive(ChatCompletionRequest(model, messages, <<>>, None), stream)
            /\ UNCHANGED outsideHandler
    \/ \E authenticated \in BOOLEAN :
            EnsureAuthenticated(authenticated) /\ UNCHANGED outsideHandler
    \/ HandlerIntoPrompt /\ UNCHANGED outsideHandler
    \/ \E result \in EngineResults :
            HandlerEngineCall(result) /\ UNCHANGED outsideHandler

SpecHandler == Init /\ [][NextHandler]_vars

\* MaxTasks tasks, each with one call of config_for_model, interleaved at
\* the awaits.
NextCache ==
    \/ \E t \in Tasks, name \in RequestedModels :
            CallConfigForModel(t, name) /\ UNCHANGED outsideCache
    \/ \E t \in Tasks : AcquireRead(t) /\ UNCHANGED outsideCache
    \/ \E t \in Tasks : Lookup(t) /\ UNCHANGED outsideCache
    \/ \E t \in Tasks, loaded \in BOOLEAN : Load(t, loaded) /\ UNCHANGED outsideCache
    \/ \E t \in Tasks : AcquireWrite(t) /\ UNCHANGED outsideCache
    \/ \E t \in Tasks : Insert(t) /\ UNCHANGED outsideCache

SpecCache == Init /\ [][NextCache]_vars

\* ------------------------------------------- properties: incremental mode

IsIncrement(c) == "finish_reason" \in DOMAIN c
IsToolChunk(c) == IsIncrement(c) /\ "tool_calls" \in DOMAIN c.delta
IsTextChunk(c) == IsIncrement(c) /\ "content" \in DOMAIN c.delta
IsFinalChunk(c) == IsIncrement(c) /\ c.finish_reason \in {Some("stop"), Some("tool_calls")}
IsErrorChunk(c) == IsIncrement(c) /\ c.finish_reason = Some("error")
ChunkCallId(c) == c.delta.tool_calls[1].id
ChunkIndex(c) == c.delta.tool_calls[1].index
ChunkArgs(c) == c.delta.tool_calls[1].function.arguments

\* The argument fragments emitted for a call id, concatenated in emission order.
RECURSIVE FragmentsOf(_, _)
FragmentsOf(chunks, id) ==
    IF chunks = <<>> THEN <<>>
    ELSE (IF IsToolChunk(Head(chunks)) /\ ChunkCallId(Head(chunks)) = id
          THEN ChunkArgs(Head(chunks)) ELSE <<>>)
         \o FragmentsOf(Tail(chunks), id)

ToolChunkPositions(id) ==
    { i \in 1..Len(Attempted) :
        IsToolChunk(Attempted[i]) /\ ChunkCallId(Attempted[i]) = id }

\* C1 as stated: for every call id and every sequence of tool-call items, the
\* argument fragments emitted for the call id, concatenated in emission
\* order, equal the argument string of the last item received for it.
C1_AnySequence ==
    \A id \in DOMAIN last_args : FragmentsOf(Attempted, id) = last_args[id]

\* C1 amended: the fragments emitted for a call id, concatenated in emission
\* order, equal the argument string of the last tool-call item received for
\* it, provided every item's argument string for that id extended (had as a
\* prefix) the argument string of the item before it.
C1_CumulativeArgs ==
    \A id \in DOMAIN last_args :
        cumulative[id] => FragmentsOf(Attempted, id) = last_args[id]

\* Two fragments were emitted for one call id whose arguments grew.
C1_Witness ==
    \E id \in DOMAIN last_args :
        cumulative[id] /\ Cardinality(ToolChunkPositions(id)) >= 2

HasToolChunk(chunks) == \E i \in 1..Len(chunks) : IsToolChunk(chunks[i])
HasFinalChunk(chunks) == \E i \in 1..Len(chunks) : IsFinalChunk(chunks[i])
HasErrorChunk(chunks) == \E i \in 1..Len(chunks) : IsErrorChunk(chunks[i])

\* Nothing more is taken from the engine, and nothing but the [DONE] marker
\* is emitted.
NothingFurther ==
    /\ consumed' = consumed
    /\ Attempted' = Attempted \/ Attempted' = Append(Attempted, done_event)

\* The step of a completed event emits one increment that carries the usage
\* block and the finish reason: tool_calls if a tool call was streamed
\* before, stop otherwise.
C2_CompletedStep ==
    \A rid \in ResponseIds, tu \in {None} \cup {Some(u) : u \in TokenUsages} :
        OnCompleted(rid, tu) =>
            /\ Len(Attempted') = Len(Attempted) + 1
            /\ SubSeq(Attempted', 1, Len(Attempted)) = Attempted
            /\ IsFinalChunk(Last(Attempted'))
            /\ Last(Attempted').finish_reason =
                  Some(IF HasToolChunk(Attempted) THEN "tool_calls" ELSE "stop")
            /\ IsSome(Last(Attempted').usage)
            /\ Unwrap(Last(Attempted').usage) =
                  (IF IsSome(tu) THEN UsageFrom(Unwrap(tu)) ELSE UsageDefault)

\* C2: on a completed event the producer emits exactly one final increment
\* with the usage block and finish reason tool_calls if a tool call was
\* streamed, stop otherwise; after it no further increment is emitted and no
\* further engine event is consumed.
C2_FinalIncrement ==
    [][ /\ C2_CompletedStep
        /\ ~HasFinalChunk(Attempted) => (HasFinalChunk(Attempted') => pc = "loop")
        /\ HasFinalChunk(Attempted) => NothingFurther ]_vars

\* A stream that streamed a tool call has ended with its final increment.
C2_Witness ==
    /\ pc = "terminated"
    /\ Len(sent) >= 3
    /\ IsToolChunk(sent[1])
    /\ sent[Len(sent) - 1].finish_reason = Some("tool_calls")
    /\ Last(sent) = done_event

\* C3: on an engine error the producer emits one terminal increment with
\* finish reason error, consumes no further engine event, and
\* forward_sse_events returns Ok; increments delivered before are kept.
C3_ErrorTerminates ==
    [][ /\ OnError =>
            /\ Attempted' = Append(Attempted, Last(Attempted'))
            /\ IsErrorChunk(Last(Attempted'))
            /\ forward_result' = "Ok"
            /\ pc' = "send_done"
            /\ SubSeq(sent', 1, Len(sent)) = sent
            /\ received' = received
        /\ HasErrorChunk(Attempted) =>
            /\ NothingFurther
            /\ forward_result' = "Ok"
            /\ SubSeq(sent', 1, Len(sent)) = sent ]_vars

\* An error arrived after a text increment had been delivered.
C3_Witness ==
    /\ pc = "terminated"
    /\ Len(sent) = 3
    /\ IsTextChunk(sent[1])
    /\ IsErrorChunk(sent[2])
    /\ sent[3] = done_event
    /\ forward_result = "Ok"

\* C4: once a send has failed the producer consumes no further engine event
\* and emits no further increment, attempts the [DONE] marker once and
\* terminates; the attempt cannot block, and the failure is not reported as
\* an error.
C4_SendFailure ==
    /\ [](dropped # <<>> =>
            /\ pc \in {"send_done", "terminated"}
            /\ forward_result = "Ok"
            /\ pc = "send_done" => Len(dropped) = 1 /\ ENABLED SendDone
            /\ pc = "terminated" => Last(dropped) = done_event /\ Len(dropped) <= 2)
    /\ [][dropped # <<>> =>
            /\ NothingFurther
            /\ sent' = sent
            /\ pc = "send_done" /\ pc' # pc =>
                  pc' = "terminated" /\ dropped' = Append(dropped, done_event)]_vars

\* A send of an increment failed, the marker was attempted, the task ended.
C4_Witness ==
    /\ pc = "terminated"
    /\ Len(dropped) = 2
    /\ IsIncrement(dropped[1])
    /\ dropped[2] = done_event
    /\ consumed < MaxEvents

\* No text increment was emitted since the last message item-done ended.
NoTextSinceLastMessage ==
    \A i \in (msg_done_mark + 1)..Len(Attempted) : ~IsTextChunk(Attempted[i])

\* C5: on an item-done of an assistant message, an increment with the
\* message's full text is synthesized if and only if no text delta was
\* emitted since the previous message item-done and the text is not
\* whitespace-only.
C5_SynthesizedIff ==
    [][\A item \in MessageItems :
          (item.role = "assistant" /\ OnOutputItemDone(item)) =>
              ( ( /\ Len(Attempted') = Len(Attempted) + 1
                  /\ IsTextChunk(Last(Attempted'))
                  /\ Some(Last(Attempted').delta.content) = item.text )
                <=>
                ( /\ NoTextSinceLastMessage
                  /\ IsSome(item.text)
                  /\ ~TrimIsEmpty(Unwrap(item.text)) ) )]_vars

\* A text delta was emitted, its message ended without a synthesized
\* increment, and the next message's text "b" (no delta carries it) was
\* synthesized.
C5_Witness ==
    /\ consumed = 3
    /\ msg_done_mark = 2
    /\ Len(sent) >= 2
    /\ IsTextChunk(sent[1])
    /\ IsTextChunk(sent[2])
    /\ sent[2].delta.content = <<"b">>

PositionIn(seq, x) == CHOOSE k \in 1..Len(seq) : seq[k] = x

\* C6: call ids get the indices 0,1,2,.. in first-seen order without gaps,
\* and every increment emitted for a call id carries the index first
\* assigned to it.
C6_StableIndices ==
    /\ DOMAIN tool_call_indices = { first_seen[k] : k \in 1..Len(first_seen) }
    /\ \A k \in 1..Len(first_seen) : tool_call_indices[first_seen[k]] = k - 1
    /\ next_tool_index = Len(first_seen)
    /\ \A i \in 1..Len(Attempted) :
          IsToolChunk(Attempted[i]) =>
              /\ ChunkCallId(Attempted[i]) \in DOMAIN tool_call_indices
              /\ ChunkIndex(Attempted[i]) = PositionIn(first_seen, ChunkCallId(Attempted[i])) - 1

\* Two call ids were seen, and the first one got another increment after
\* the second had been seen.
C6_Witness ==
    /\ Len(first_seen) = 2
    /\ Len(sent) = 3
    /\ \A i \in 1..3 : IsToolChunk(sent[i])
    /\ ChunkCallId(sent[1]) = ChunkCallId(sent[3])
    /\ ChunkCallId(sent[2]) # ChunkCallId(sent[1])

\* --------------------------------------------- properties: aggregate mode

AggReturnedOk == IsSome(agg_result) /\ Unwrap(agg_result).ok
AggResponse == Unwrap(agg_result).response

\* C7: the tool-call list holds at most one record per call id, ordered by
\* first appearance of the id; a later item with a seen id replaces the
\* record in place.
C7_OneRecordPerCallId ==
    /\ Len(tool_calls) = Len(agg_first_seen)
    /\ \A i, j \in 1..Len(tool_calls) :
          tool_calls[i].id = tool_calls[j].id => i = j
    /\ \A k \in 1..Len(tool_calls) :
          /\ tool_calls[k].id = agg_first_seen[k]
          /\ tool_calls[k] = agg_last_call[agg_first_seen[k]]
    /\ AggReturnedOk => AggResponse.message.tool_calls = tool_calls

\* Two call ids were seen and the record of the first one was replaced by a
\* later item with other arguments.
C7_Witness ==
    /\ Len(tool_calls) = 2
    /\ agg_replacements = 1
    /\ tool_calls[1].id = "c1"
    /\ tool_calls[1].function.arguments = <<"a", "b">>
    /\ tool_calls[2].id = "c2"

\* C8 as stated: when an item carried an assistant message with text, the
\* response content is the text of the latest such item.
C8_LatestItemText ==
    (AggReturnedOk /\ IsSome(agg_last_text)) =>
        AggResponse.message.content = agg_last_text

\* C8 amended: when an item carried an assistant message with text, the
\* response content is the text of the latest such item, or absent when that
\* text is whitespace-only, and the text deltas are discarded; only when no
\* such item was received is the content the concatenation of the text
\* deltas (absent when that is whitespace-only or empty).
C8_LatestItemTextUnlessBlank ==
    AggReturnedOk =>
        AggResponse.message.content =
            (IF IsSome(agg_last_text)
             THEN (IF TrimIsEmpty(Unwrap(agg_last_text)) THEN None ELSE agg_last_text)
             ELSE (IF TrimIsEmpty(streamed_text) THEN None ELSE Some(streamed_text)))

\* Text deltas were buffered and a later message item superseded them.
C8_Witness ==
    /\ AggReturnedOk
    /\ streamed_text = <<"a">>
    /\ agg_last_text = Some(<<"b">>)
    /\ AggResponse.message.content = Some(<<"b">>)

\* C9: the finish reason is tool_calls exactly when the tool-call list of the
\* response is not empty, which is exactly when a tool-call item was
\* received, and stop otherwise.
C9_FinishReason ==
    AggReturnedOk =>
        /\ AggResponse.finish_reason \in {"tool_calls", "stop"}
        /\ AggResponse.finish_reason = "tool_calls" <=>
              AggResponse.message.tool_calls # <<>>
        /\ AggResponse.message.tool_calls # <<>> <=> agg_first_seen # <<>>

\* Tool calls and no text: the finish reason is tool_calls.
C9_Witness ==
    /\ AggReturnedOk
    /\ AggResponse.message.content = None
    /\ AggResponse.message.tool_calls # <<>>
    /\ AggResponse.finish_reason = "tool_calls"

\* C10: the response content is never an empty or whitespace-only string.
C10_NoBlankContent ==
    AggReturnedOk =>
        \/ AggResponse.message.content = None
        \/ ~TrimIsEmpty(Unwrap(AggResponse.message.content))

\* A whitespace-only message text and whitespace-only deltas: no content.
C10_Witness ==
    /\ AggReturnedOk
    /\ final_text = Some(<<" ">>)
    /\ streamed_text = <<" ">>
    /\ AggResponse.message.content = None

\* C11: in aggregate mode, once the engine's stream has yielded an error the
\* operation has returned the Internal error and no response, whatever was
\* accumulated before; nothing is consumed or changed afterwards (no retry).
C11_ErrorIsTerminal ==
    /\ [](agg_error_seen =>
            /\ agg_pc = "returned"
            /\ agg_result = Some([ok |-> FALSE, error |-> "Internal"])
            /\ ~AggReturnedOk)
    /\ [][agg_error_seen => UNCHANGED aggVars]_vars

\* The error arrived after text and a tool call had been accumulated.
C11_Witness ==
    /\ agg_error_seen
    /\ streamed_text # <<>>
    /\ Len(tool_calls) = 1
    /\ agg_consumed = 3


\* ------------------------------------------------- properties: usage

Max0(v) == IF v < 0 THEN 0 ELSE v

\* C12: the three reported counters are non-negative, and prompt and
\* completion tokens are the sums of the source values each clamped to zero
\* first: prompt = max(0, input) + max(0, cached input), completion =
\* max(0, output) + max(0, reasoning output).
C12_ClampBeforeSum ==
    IsSome(usage_source) =>
        LET value == Unwrap(usage_source) IN
        /\ usage_reported.prompt_tokens >= 0
        /\ usage_reported.completion_tokens >= 0
        /\ usage_reported.total_tokens >= 0
        /\ usage_reported.prompt_tokens =
              Max0(value.input_tokens) + Max0(value.cached_input_tokens)
        /\ usage_reported.completion_tokens =
              Max0(value.output_tokens) + Max0(value.reasoning_output_tokens)

\* ------------------------------------------ properties: normalization

NormDone == IsSome(norm_request)
NormRequest == Unwrap(norm_request)
NormOk == NormDone /\ norm_result.ok
NormInput == norm_result.value.prompt.input

\* The role of a message as the claims name it: trimmed and case-folded.
FoldedRole(message) == to_ascii_lowercase(trim(message.role))

MessageIndices == 1..Len(NormRequest.messages)
NormMessage(i) == NormRequest.messages[i]

RECURSIVE Concat(_)
Concat(seqs) == IF seqs = <<>> THEN <<>> ELSE Head(seqs) \o Concat(Tail(seqs))

\* Number of elements of a set of positions that lie before position i.
RankIn(positions, i) == Cardinality({ p \in positions : p < i })

\* C13: normalization of a request whose message list is empty fails with
\* BadRequest and yields no payload, whatever its other fields are.
C13_EmptyMessagesRejected ==
    (NormDone /\ NormRequest.messages = <<>>) =>
        /\ norm_result = BadRequest
        /\ "value" \notin DOMAIN norm_result

\* An empty message list came with tool declarations, a model name and the
\* parallel-tool-calls flag.
C13_Witness ==
    /\ NormDone
    /\ NormRequest.messages = <<>>
    /\ Len(NormRequest.tools) = 2
    /\ NormRequest.model # <<>>
    /\ NormRequest.parallel_tool_calls = Some(TRUE)
    /\ ~norm_result.ok

\* C14: a message of any role, `tool` included, whose content is neither
\* null, a string, an array nor an object makes normalization fail with
\* BadRequest.
C14_ScalarContentRejected ==
    (NormDone /\ \E i \in MessageIndices :
        NormMessage(i).content.kind \notin {"null", "string", "array", "object"})
    => norm_result = BadRequest

\* An element of an array content that content conversion accepts: a
\* string, a text block with a `text` string, or an image block with a URL
\* given as a string or under `url` of an object.
StructurallyValid(element) ==
    \/ element.kind = "string"
    \/ /\ element.kind = "object"
       /\ "type" \in DOMAIN element.map
       /\ element.map["type"].kind = "string"
       /\ \/ /\ element.map["type"].str \in {S_text, S_input_text}
             /\ "text" \in DOMAIN element.map
             /\ element.map["text"].kind = "string"
          \/ /\ element.map["type"].str \in {S_image_url, S_input_image}
             /\ "image_url" \in DOMAIN element.map
             /\ \/ element.map["image_url"].kind = "string"
                \/ /\ element.map["image_url"].kind = "object"
                   /\ "url" \in DOMAIN element.map["image_url"].map
                   /\ element.map["image_url"].map["url"].kind = "string"

HasInvalidElement(message) ==
    /\ message.content.kind = "array"
    /\ \E k \in 1..Len(message.content.items) :
          ~StructurallyValid(message.content.items[k])

C16_StringContentOnePart ==
    NormOk =>
        /\ Concat(norm_pushed) = NormInput
        /\ \A i \in MessageIndices :
            (FoldedRole(NormMessage(i)) # S_tool
                /\ NormMessage(i).content.kind = "string")
            => LET pushed == norm_pushed[i]
                   messages == SelectSeq(pushed, LAMBDA item : item.type = "Message")
               IN /\ Len(messages) = 1
                  /\ messages[1].content =
                        << [type |-> IF FoldedRole(NormMessage(i)) = S_assistant
                                     THEN "OutputText" ELSE "InputText",
                            text |-> NormMessage(i).content.str] >>

\* An assistant message with a mixed-case role and a user message, both with
\* string content, gave an output text and an input text.
C16_Witness ==
    /\ NormOk
    /\ Len(NormRequest.messages) = 2
    /\ NormMessage(1).role = <<"A", "s", "s", "i", "s", "t", "a", "n", "t">>
    /\ NormMessage(1).content = JString(S_hi)
    /\ NormMessage(2).role = S_user
    /\ NormMessage(2).content = JString(<<>>)
    /\ NormInput[1].content[1].type = "OutputText"
    /\ NormInput[2].content[1].type = "InputText"

\* Roles that are neither `system` nor `assistant`.
OtherRoles == { S_user, S_developer, <<"b", "o", "t">> }

\* C17: in a payload, a message whose trimmed, case-folded role is `system`
\* has pushed a message item of role `developer` whose content parts are
\* those the same content gives under any other non-assistant role (or no
\* item where there are no parts), and no prompt item has role `system`.
C17_SystemBecomesDeveloper ==
    NormOk =>
        /\ Concat(norm_pushed) = NormInput
        /\ \A i \in MessageIndices :
            FoldedRole(NormMessage(i)) = S_system =>
                \A r \in OtherRoles :
                    LET parts == convert_content(r, NormMessage(i).content).value IN
                    norm_pushed[i] =
                        IF parts = <<>> THEN <<>>
                        ELSE <<[type |-> "Message", role |-> S_developer,
                                content |-> parts]>>
        /\ \A k \in 1..Len(NormInput) :
            NormInput[k].type = "Message" => NormInput[k].role # S_system

\* A message with the padded, mixed-case role " SysTEM\n" was emitted as a
\* developer message with its text.
C17_Witness ==
    /\ NormOk
    /\ Len(NormRequest.messages) = 1
    /\ NormMessage(1).role # S_system
    /\ FoldedRole(NormMessage(1)) = S_system
    /\ NormInput = <<[type |-> "Message", role |-> S_developer,
                      content |-> <<[type |-> "InputText", text |-> S_hi]>>]>>

\* A tool-role message without a tool-call id.
IsSkippedToolMessage(message) ==
    FoldedRole(message) = S_tool /\ message.tool_call_id = None

\* The request without its i-th message.
WithoutMessage(request, i) ==
    [request EXCEPT !.messages =
        SubSeq(@, 1, i - 1) \o SubSeq(@, i + 1, Len(@))]

\* C18 as stated: a tool-role message without a tool-call id pushes no item
\* and causes no error: the result of normalization is that of the same
\* request with the message removed.
C18_SameAsRemoved ==
    NormDone =>
        \A i \in MessageIndices :
            IsSkippedToolMessage(NormMessage(i)) =>
                /\ NormOk => norm_pushed[i] = <<>>
                /\ norm_result = into_prompt(WithoutMessage(NormRequest, i))

\* C18, amended: a tool-role message without a tool-call id pushes no item
\* and causes no error; where the request has another message the result is
\* that of the same request with the message removed, and where it is the
\* only message the request succeeds with an empty prompt input.
C18_SameAsRemovedUnlessAlone ==
    NormDone =>
        \A i \in MessageIndices :
            IsSkippedToolMessage(NormMessage(i)) =>
                /\ NormOk => norm_pushed[i] = <<>>
                /\ Len(NormRequest.messages) > 1 =>
                      norm_result = into_prompt(WithoutMessage(NormRequest, i))
                /\ Len(NormRequest.messages) = 1 =>
                      NormOk /\ NormInput = <<>>

\* A tool message with string content and no tool-call id stood before a
\* user message; the prompt holds the user message only.
C18_Witness ==
    /\ NormOk
    /\ Len(NormRequest.messages) = 2
    /\ IsSkippedToolMessage(NormMessage(1))
    /\ NormMessage(1).content = JString(<<"o">>)
    /\ FoldedRole(NormMessage(2)) = S_user
    /\ Len(NormInput) = 1
    /\ NormInput[1].type = "Message"

\* A tool call that is converted: its type is `function` in any case (or is
\* absent, which the code reads as `function`) and its function has a name
\* that is not blank.
QualifyingCall(tc) ==
    /\ tc.type = None \/ to_ascii_lowercase(Unwrap(tc.type)) = S_function
    /\ tc.function # None
    /\ Unwrap(tc.function).name # None
    /\ trim(Unwrap(Unwrap(tc.function).name)) # <<>>

HasCallId(tc) == tc.id # None /\ trim(Unwrap(tc.id)) # <<>>

\* C19: in a payload, an assistant message has pushed one FunctionCall item
\* per qualifying tool call, in input order and before its own message item;
\* a call without a call id has the id call_<n>, n being the number of calls
\* of that message converted before it.
C19_ToolCallsBeforeContent ==
    NormOk =>
        /\ Concat(norm_pushed) = NormInput
        /\ \A i \in MessageIndices :
            FoldedRole(NormMessage(i)) = S_assistant =>
                LET calls == IF NormMessage(i).tool_calls = None THEN <<>>
                             ELSE Unwrap(NormMessage(i).tool_calls)
                    qualifying == { q \in 1..Len(calls) : QualifyingCall(calls[q]) }
                    pushed == norm_pushed[i]
                    n == Cardinality(qualifying)
                IN /\ Len(pushed) \in {n, n + 1}
                   /\ \A k \in 1..Len(pushed) :
                         pushed[k].type = IF k <= n THEN "FunctionCall" ELSE "Message"
                   /\ \A q \in qualifying :
                         LET item == pushed[RankIn(qualifying, q) + 1] IN
                         /\ item.name = trim(Unwrap(Unwrap(calls[q].function).name))
                         /\ item.call_id =
                               IF HasCallId(calls[q]) THEN Unwrap(calls[q].id)
                               ELSE S_call_ \o Decimal(RankIn(qualifying, q))

\* An assistant message with text and two qualifying calls, the second
\* without an id: the calls come first, the second as call_1, then the text.
C19_Witness ==
    /\ NormOk
    /\ Len(NormRequest.messages) = 1
    /\ Len(NormInput) = 3
    /\ NormInput[1].type = "FunctionCall"
    /\ NormInput[1].call_id = S_c1
    /\ NormInput[2].type = "FunctionCall"
    /\ NormInput[2].call_id = S_call_ \o <<"1">>
    /\ NormInput[2].name = <<"g">>
    /\ NormMessage(1).tool_calls # None
    /\ Unwrap(NormMessage(1).tool_calls)[2].id = None
    /\ NormInput[3].type = "Message"

\* A declared tool that is kept: its type is `function` in any case and its
\* function has a name that is not blank.
KeptDeclaration(tool) ==
    /\ to_ascii_lowercase(tool.kind) = S_function
    /\ tool.function # None
    /\ Unwrap(tool.function).name # None
    /\ trim(Unwrap(Unwrap(tool.function).name)) # <<>>

\* C20: the tools of a payload are function tools, one per declared tool
\* whose type is `function` and whose trimmed name is not empty, in input
\* order under the trimmed name; declarations of one name are all kept.
C20_FunctionToolsKept ==
    NormOk =>
        LET declared == NormRequest.tools
            kept == { i \in 1..Len(declared) : KeptDeclaration(declared[i]) }
            tools == norm_result.value.prompt.tools
        IN /\ Len(tools) = Cardinality(kept)
           /\ \A k \in 1..Len(tools) : tools[k].type = "Function"
           /\ \A i \in kept :
                 LET spec == tools[RankIn(kept, i) + 1] IN
                 /\ spec.name = trim(Unwrap(Unwrap(declared[i].function).name))
                 /\ spec.strict = (Unwrap(declared[i].function).strict = Some(TRUE))

\* Two declarations named `f` (the second padded, strict) were both kept, in
\* input order.
C20_Witness ==
    /\ NormOk
    /\ Len(NormRequest.tools) = 2
    /\ Len(norm_result.value.prompt.tools) = 2
    /\ norm_result.value.prompt.tools[1].name = <<"f">>
    /\ norm_result.value.prompt.tools[2].name = <<"f">>
    /\ ~norm_result.value.prompt.tools[1].strict
    /\ norm_result.value.prompt.tools[2].strict

\* The non-empty texts found on the user-role messages of the request, in
\* message order and, within a message, in content order.
TextsOf(content) ==
    LET parts == convert_content(S_user, content) IN
    IF ~parts.ok THEN <<>>
    ELSE SelectSeq([k \in 1..Len(parts.value) |->
                       IF parts.value[k].type = "InputText"
                       THEN parts.value[k].text ELSE <<>>],
                   LAMBDA text : text # <<>>)

NonEmptyUserTexts ==
    Concat([i \in MessageIndices |->
               IF normalize_role(NormMessage(i).role) = S_user
               THEN TextsOf(NormMessage(i).content) ELSE <<>>])

\* C21: the first user message of a payload is the first non-empty text
\* found on a user-role message, scanning the messages in order (none when
\* there is no such text): a user message whose text is empty is not
\* recorded and does not keep a later user text from being recorded.
C21_FirstNonEmptyUserText ==
    NormOk =>
        norm_result.value.first_user_message =
            (IF NonEmptyUserTexts = <<>> THEN None
             ELSE Some(Head(NonEmptyUserTexts)))

\* ------------------------------------- properties: prompt augmentation

PromptNow == Unwrap(cur_prompt)
LastCall == Unwrap(last_call)
LastIsEnsure == IsSome(last_call) /\ LastCall.fn = "ensure_web_search_tool"
LastIsInject == IsSome(last_call) /\ LastCall.fn = "inject_developer_prompt"

WebSearchCount(tools) ==
    Cardinality({ i \in 1..Len(tools) : tools[i] = [type |-> "WebSearch"] })
OtherTools(tools) == SelectSeq(tools, LAMBDA tool : tool # [type |-> "WebSearch"])

\* The items of an input that are developer-role messages with a text that
\* holds the compatibility marker.
MarkerMessages(input) ==
    { i \in 1..Len(input) :
        /\ input[i].type = "Message"
        /\ input[i].role = S_developer
        /\ \E k \in 1..Len(input[i].content) :
              /\ input[i].content[k].type = "InputText"
              /\ Contains(input[i].content[k].text, CODEX_SERVE_PROMPT_MARKER) }

\* C22: after any number of calls of ensure_web_search_tool, with any
\* `allowed`, on a prompt that started with at most one WebSearch
\* declaration, the prompt has at most one WebSearch declaration, its other
\* tools are those it started with in the same order, the flag returned is
\* whether a WebSearch declaration is present after the call, and the same
\* call again changes nothing and returns the same flag.
C22_EnsureWebSearchIdempotent ==
    IsSome(cur_prompt) =>
        /\ WebSearchCount(PromptNow.tools) <= 1
        /\ OtherTools(PromptNow.tools) = OtherTools(Unwrap(prompt_initial).tools)
        /\ LastIsEnsure =>
              /\ LastCall.returned = (WebSearchCount(PromptNow.tools) > 0)
              /\ ensure_web_search_tool(PromptNow, LastCall.allow_web_search)
                    = [prompt |-> PromptNow, returned |-> LastCall.returned]

\* A second allowing call on a prompt with two function tools, to which the
\* first call had added the declaration.
C22_Witness ==
    /\ LastIsEnsure
    /\ call_count = 2
    /\ LastCall.allow_web_search
    /\ WebSearchCount(Unwrap(prompt_initial).tools) = 0
    /\ WebSearchCount(LastCall.before.tools) = 1
    /\ Len(PromptNow.tools) = 3
    /\ LastCall.returned

\* C23: inject_developer_prompt leaves the prompt unchanged, in every mode
\* and for every system text, when a developer-role message with the marker
\* is present; the same call made again on its result changes nothing; and
\* the prompt never holds two blocks (a prompt that started with at most
\* one has at most one).
C23_MarkerGuardsInjection ==
    IsSome(cur_prompt) =>
        /\ Cardinality(MarkerMessages(PromptNow.input)) <= 1
        /\ LastIsInject =>
              /\ MarkerMessages(LastCall.before.input) # {} =>
                    PromptNow = LastCall.before
              /\ inject_developer_prompt(PromptNow, LastCall.has_web_search,
                                         LastCall.system_prompt, LastCall.mode)
                    = PromptNow

\* A call in mode Override on a prompt whose block the call before it had
\* injected.
C23_Witness ==
    /\ LastIsInject
    /\ call_count = 2
    /\ injected_count = 1
    /\ LastCall.mode = "Override"
    /\ MarkerMessages(Unwrap(prompt_initial).input) = {}
    /\ MarkerMessages(LastCall.before.input) = {1}
    /\ PromptNow = LastCall.before

\* C24: on a prompt without the marker, inject_developer_prompt inserts
\* nothing in mode Disabled, inserts in mode Default exactly when no system
\* text was supplied, and always inserts in mode Override; when it inserts,
\* the generated developer message is the first item and the previous items
\* follow it unchanged, in the same order.
C24_InjectionByMode ==
    (LastIsInject /\ MarkerMessages(LastCall.before.input) = {}) =>
        LET inserts == \/ LastCall.mode = "Override"
                       \/ LastCall.mode = "Default" /\ LastCall.system_prompt = None
        IN IF inserts
           THEN /\ PromptNow.input # <<>>
                /\ Tail(PromptNow.input) = LastCall.before.input
                /\ MarkerMessages(<<Head(PromptNow.input)>>) = {1}
                /\ PromptNow.tools = LastCall.before.tools
           ELSE PromptNow = LastCall.before

\* A call in mode Default without a system text on a prompt of two items,
\* neither with the marker.
C24_Witness ==
    /\ LastIsInject
    /\ LastCall.mode = "Default"
    /\ LastCall.system_prompt = None
    /\ Len(LastCall.before.input) = 2
    /\ MarkerMessages(LastCall.before.input) = {}
    /\ Len(PromptNow.input) = 3

\* C25: in mode Override with a system text whose trimmed form is not
\* empty, the message injected holds, after the block, the label of the
\* original system message followed by exactly the trimmed text.
C25_OverrideKeepsSystemText ==
    ( /\ LastIsInject
      /\ LastCall.mode = "Override"
      /\ IsSome(LastCall.system_prompt)
      /\ trim(Unwrap(LastCall.system_prompt)) # <<>>
      /\ PromptNow # LastCall.before ) =>
        LET text == Head(PromptNow.input).content[1].text IN
        text = build_developer_prompt_text(LastCall.has_web_search, None)
               \o OriginalSystemLabel \o trim(Unwrap(LastCall.system_prompt))

\* A padded system text was injected, trimmed, in mode Override.
C25_Witness ==
    /\ LastIsInject
    /\ LastCall.mode = "Override"
    /\ LastCall.system_prompt = Some(<<" ">> \o S_keep_this \o <<"\n">>)
    /\ LastCall.has_web_search
    /\ PromptNow # LastCall.before
    /\ Contains(Head(PromptNow.input).content[1].text,
                OriginalSystemLabel \o S_keep_this)

\* ------------------------------------- properties: schema sanitization

Sanitized == IsSome(schema_output)
SchemaIn == Unwrap(schema_input)
SchemaOut == Unwrap(schema_output)

HasType(value) == value.kind = "object" /\ "type" \in DOMAIN value.map

\* C26: for any JSON value given as a schema (object, boolean, array,
\* string, number or null), the value the sanitizer returns has a `type`.
C26_ResultHasType == Sanitized => HasType(SchemaOut)

CompositionKeys == {"oneOf", "anyOf", "allOf", "prefixItems"}

\* Whether every object in a schema position of a value has a `type` and no
\* boolean is left in a schema position; the positions are the value itself,
\* the elements of an array of schemas, every value of a `properties` map,
\* `items`, the composition branches, and `additionalProperties`.
RECURSIVE EverySchemaTyped(_)
EverySchemaTyped(value) ==
    IF value.kind = "bool" THEN FALSE
    ELSE IF value.kind = "array"
         THEN \A i \in 1..Len(value.items) : EverySchemaTyped(value.items[i])
    ELSE IF value.kind = "object" THEN
        LET map == value.map IN
        /\ "type" \in DOMAIN map
        /\ ("properties" \in DOMAIN map /\ map["properties"].kind = "object") =>
              \A q \in DOMAIN map["properties"].map :
                  EverySchemaTyped(map["properties"].map[q])
        /\ \A k \in (CompositionKeys \cup {"items", "additionalProperties"})
                        \cap DOMAIN map :
              EverySchemaTyped(map[k])
    ELSE TRUE

RECURSIVE EveryDescendedTyped(_)
EveryDescendedTyped(value) ==
    IF value.kind = "bool" THEN FALSE
    ELSE IF value.kind = "array"
         THEN \A i \in 1..Len(value.items) : EveryDescendedTyped(value.items[i])
    ELSE IF value.kind = "object" THEN
        LET map == value.map IN
        /\ "type" \in DOMAIN map
        /\ ("properties" \in DOMAIN map /\ map["properties"].kind = "object") =>
              \A q \in DOMAIN map["properties"].map :
                  EveryDescendedTyped(map["properties"].map[q])
        /\ \A k \in (CompositionKeys \cup {"items"}) \cap DOMAIN map :
              EveryDescendedTyped(map[k])
        /\ ( /\ "additionalProperties" \in DOMAIN map
             /\ map["additionalProperties"].kind # "bool"
             /\ map["type"] = JString(S_object) ) =>
              EveryDescendedTyped(map["additionalProperties"])
    ELSE TRUE

AnyOfProperties(value) ==
    IF value.kind = "object" /\ "properties" \in DOMAIN value.map
       /\ value.map["properties"].kind = "object"
    THEN { q \in DOMAIN value.map["properties"].map :
             LET property == value.map["properties"].map[q] IN
             /\ property.kind = "object"
             /\ "type" \notin DOMAIN property.map
             /\ "anyOf" \in DOMAIN property.map
             /\ property.map["anyOf"].kind = "array"
             /\ property.map["anyOf"].items # <<>> }
    ELSE {}

\* C28: a property schema without a `type` that lists alternatives under
\* `anyOf` is sanitized to the type of its first alternative, in every
\* ordering of the alternatives.
C28_FirstAlternativeWins ==
    Sanitized =>
        \A q \in AnyOfProperties(SchemaIn) :
            LET property == SchemaOut.map["properties"].map[q] IN
            property.map["type"] = property.map["anyOf"].items[1].map["type"]

\* ------------------------------------- properties: the handler

\* C29: for a chat-completion request from a caller that is not logged in,
\* the handler returns Unauthorized and does nothing but the login check:
\* no normalization, no model resolution and no engine call is made, also
\* when the body would fail normalization.
C29_UnauthorizedBeforeAnyWork ==
    is_authenticated = Some(FALSE) =>
        /\ handler_pc = "done"
        /\ handler_response = Err("Unauthorized")
        /\ handler_calls = <<"ensure_authenticated">>
        /\ prompt_payload = None

\* A request with an empty message list from a caller that is not logged in
\* was answered.
C29_Witness ==
    /\ is_authenticated = Some(FALSE)
    /\ handler_pc = "done"
    /\ Unwrap(handler_payload).body.messages = <<>>
    /\ ~into_prompt(Unwrap(handler_payload).body).ok
    /\ handler_response = Err("Unauthorized")

\* ------------------------------------- properties: configuration cache

\* Whether the call of task t has returned the Config it loaded itself, or
\* the error of its load.
ReturnedOwnLoad(t) ==
    /\ task_pc[t] = "done"
    /\ \/ task_result[t].ok /\ task_result[t].value.loaded_by = t
       \/ ~task_result[t].ok /\ task_requested[t] # Some(<<>>)

\* C30: a task that misses the configuration cache makes exactly one load
\* (and a task that does not miss makes none); no task holds a guard of the
\* cache lock while its load is in progress, so a lookup is granted whenever
\* the other tasks are loading, idle, done or reading; the cache never holds
\* two entries of one model name; and a failed load returns BadRequest and
\* leaves no entry.
C30_CacheProtocol ==
    /\ \A t \in Tasks :
        /\ task_pc[t] = "load" =>
              t \notin lock_readers /\ lock_writer # Some(t) /\ task_loads[t] = 0
        /\ task_pc[t] \in {"write_wait", "insert"} => task_loads[t] = 1
        /\ task_pc[t] = "done" =>
              task_loads[t] = (IF ReturnedOwnLoad(t) THEN 1 ELSE 0)
        /\ (task_pc[t] = "done" /\ ~task_result[t].ok) =>
              /\ task_result[t] = BadRequest
              /\ \A e \in config_cache : e.config.loaded_by # t
        /\ ( /\ task_pc[t] = "read_wait"
             /\ \A u \in Tasks \ {t} :
                   task_pc[u] \in {"idle", "read_wait", "lookup", "load", "done"} ) =>
              ENABLED AcquireRead(t)
    /\ \A e1, e2 \in config_cache : e1.key = e2.key => e1 = e2

\* Two tasks missed on the same model, each loaded and inserted, and the
\* cache holds one entry of that model.
C30_Witness ==
    /\ \A t \in Tasks : task_pc[t] = "done"
    /\ task_requested[1] = Some(<<"a">>)
    /\ task_requested[2] = Some(<<"a">>)
    /\ task_result[1] = Ok([model |-> <<"a">>, loaded_by |-> 1])
    /\ task_result[2] = Ok([model |-> <<"a">>, loaded_by |-> 2])
    /\ task_loads[1] = 1 /\ task_loads[2] = 1
    /\ Cardinality(config_cache) = 1

\* ------------------------------- properties: incremental mode, second part

\* The recorded emitted length of a call id (0 when none is recorded).
RecordedLen(progress, id) == IF id \in DOMAIN progress THEN progress[id] ELSE 0

\* C31: in incremental mode, over every step and every call id: the recorded
\* emitted length of the call id does not decrease; when the step hands over
\* a tool-call increment of the call id, the increment carries exactly the
\* part of the item's argument string beyond the length recorded before the
\* step, and the string's length is recorded; when the argument string of the
\* last item of the call id is not longer than the recorded length, the step
\* hands over no increment of the call id and leaves its recorded length
\* unchanged. (last_args' holds the argument string of the item the step
\* handled.)
C31_RecordedLengthAndSuffix ==
    [][ \A id \in DOMAIN last_args' :
          LET recorded == RecordedLen(tool_call_arg_progress, id)
              recorded_after == RecordedLen(tool_call_arg_progress', id)
              arguments == last_args'[id]
              handed_over ==
                  /\ Len(Attempted') = Len(Attempted) + 1
                  /\ IsToolChunk(Attempted'[Len(Attempted')])
                  /\ ChunkCallId(Attempted'[Len(Attempted')]) = id
          IN  /\ recorded_after >= recorded
              /\ Len(Attempted') >= Len(Attempted)
              /\ handed_over =>
                    /\ ChunkArgs(Attempted'[Len(Attempted')]) =
                          SubSeq(arguments, recorded + 1, Len(arguments))
                    /\ recorded_after = Len(arguments)
              /\ Len(arguments) <= recorded =>
                    /\ ~handed_over
                    /\ recorded_after = recorded
      ]_vars

\* Call c1 was reported with "a", then "ab", then "a" again: two increments
\* were handed over, the third item produced none and the recorded length
\* stayed at 2.
C31_Witness ==
    /\ consumed = 3
    /\ "c1" \in DOMAIN tool_call_arg_progress
    /\ tool_call_arg_progress["c1"] = 2
    /\ last_args["c1"] = <<"a">>
    /\ Cardinality(ToolChunkPositions("c1")) = 2
    /\ FragmentsOf(Attempted, "c1") = <<"a", "b">>

\* ------------------------------- properties: aggregate mode, second part

\* The deltas of one summary-part index, concatenated in arrival order.
RECURSIVE SummaryDeltasOf(_, _)
SummaryDeltasOf(events, summary_index) ==
    IF events = <<>> THEN <<>>
    ELSE (IF Head(events).summary_index = summary_index
          THEN Head(events).delta ELSE <<>>)
         \o SummaryDeltasOf(Tail(events), summary_index)

\* The summary-part indices of a set, each with the concatenation of its
\* deltas, by ascending index.
RECURSIVE PartsByAscendingIndex(_)
PartsByAscendingIndex(indices) ==
    IF indices = {} THEN <<>>
    ELSE LET least == CHOOSE i \in indices : \A j \in indices : i <= j
         IN <<SummaryDeltasOf(agg_summary_deltas, least)>>
            \o PartsByAscendingIndex(indices \ {least})

\* The summary-part indices that received a delta.
DeltaIndices ==
    { agg_summary_deltas[k].summary_index : k \in 1..Len(agg_summary_deltas) }

HasRoleMarker(c) ==
    IsIncrement(c) /\ "role" \in DOMAIN c.delta /\ c.delta.role = "assistant"

\* An increment made from a text delta, a reasoning delta, a tool-call item
\* or a message item (its finish reason is null).
IsContentIncrement(c) == IsIncrement(c) /\ c.finish_reason = None

\* C33: in incremental mode, of the increments made from text deltas,
\* reasoning deltas, tool-call items and message items, the first increment
\* of the response carries the `assistant` role marker and no later one does.
C33_RoleOnFirstIncrementOnly ==
    \A i \in 1..Len(Attempted) :
        IsContentIncrement(Attempted[i]) =>
            (HasRoleMarker(Attempted[i]) <=> i = 1)

\* The positions of the increments handed to the channel whose finish reason
\* is not null.
FinishPositions ==
    { i \in 1..Len(sent) : IsIncrement(sent[i]) /\ sent[i].finish_reason # None }

\* C34: in incremental mode with a consumer that keeps reading, a stream
\* whose producer has ended holds exactly one increment with a non-null
\* finish reason, and it is the last increment before the [DONE] marker,
\* also when the engine's stream ended without a completed event and without
\* an error.
C34_OneFinishBeforeDone ==
    (pc = "terminated" /\ rxOpen) =>
        /\ Len(sent) >= 2
        /\ sent[Len(sent)] = done_event
        /\ FinishPositions = {Len(sent) - 1}

\* The positions at which the [DONE] marker was handed to the channel.
DonePositions == { i \in 1..Len(Attempted) : Attempted[i] = done_event }

\* The producer task is over: it returned after the [DONE] send, or it
\* unwound from a panic.
TaskEnded == pc \in {"terminated", "panicked"}

C36_OneResponseId ==
    \A i, j \in 1..Len(Attempted) :
        (IsIncrement(Attempted[i]) /\ IsIncrement(Attempted[j])) =>
            Attempted[i].id = Attempted[j].id

\* ------------------------------------------- properties: the two modes

\* The final increment of incremental mode, once it has been handed over.
StreamFinal == Attempted[CHOOSE i \in 1..Len(Attempted) : IsFinalChunk(Attempted[i])]

\* C37: for an engine event sequence that ends with a completed event and
\* holds no error, once both modes have handled the completed event the
\* finish reason of the aggregate-mode response equals the finish reason of
\* the final increment of incremental mode, also when a tool-call item has an
\* empty argument string.
C37_SameFinishReason ==
    (AggReturnedOk /\ HasFinalChunk(Attempted)) =>
        StreamFinal.finish_reason = Some(AggResponse.finish_reason)

\* ------------------------------------- properties: normalizer, second part

\* C38: in a payload, the FunctionCall items pushed for one assistant message
\* have pairwise distinct call ids whenever the call ids supplied on the tool
\* calls of that message are pairwise distinct.
C38_DistinctCallIds ==
    NormOk =>
        \A i \in MessageIndices :
            FoldedRole(NormMessage(i)) = S_assistant =>
                LET calls == IF NormMessage(i).tool_calls = None THEN <<>>
                             ELSE Unwrap(NormMessage(i).tool_calls)
                    supplied == { q \in 1..Len(calls) : HasCallId(calls[q]) }
                    pushed == norm_pushed[i]
                    function_calls ==
                        { k \in 1..Len(pushed) : pushed[k].type = "FunctionCall" }
                IN (\A p, q \in supplied :
                        p # q => Unwrap(calls[p].id) # Unwrap(calls[q].id))
                   => \A k, l \in function_calls :
                        k # l => pushed[k].call_id # pushed[l].call_id

\* ------------------------------------- properties: sanitizer, second part

\* C39: the sanitizer is idempotent: for every schema fragment, the sanitizer
\* applied to the value it returned returns that value unchanged.
C39_SanitizeIdempotent ==
    IsSome(schema_again) => Unwrap(schema_again) = SchemaOut

\* An untyped object with a boolean property, boolean `items`, a boolean
\* alternative and an untyped `additionalProperties` was sanitized, which
\* changed it, and the result was sanitized again.
C39_Witness ==
    /\ IsSome(schema_again)
    /\ SchemaIn.kind = "object"
    /\ DOMAIN SchemaIn.map =
          {"properties", "items", "anyOf", "additionalProperties"}
    /\ SchemaIn.map["properties"] = JObject([x |-> JBool(TRUE)])
    /\ SchemaOut # SchemaIn
    /\ SchemaOut.map["additionalProperties"] = StringSchema
    /\ Unwrap(schema_again).map["properties"].map["x"] = StringSchema

\* The web-search call items that carry no item id (none, or an empty one).
IdlessWebSearchItems == { item \in WebSearchCallItems : DrawsUuid(item) }

\* One web-search call item without an item id has been handled by both
\* modes and nothing else has: item-added and item-done of a tool-call item
\* are handled alike, so this is the state after its item-added event.
ReportedOnce(item) ==
    /\ consumed = 1 /\ agg_consumed = 1
    /\ uuid_counter = 1 /\ agg_uuid_counter = 1
    /\ Len(tool_calls) = 1
    /\ tool_calls[1].function.arguments = web_search_arguments(item.action)
    /\ next_tool_index = 1

\* C40: a web-search call item without an item id that is reported by
\* item-added and then by item-done is treated as one tool call: after the
\* item-done event aggregate mode holds one record and incremental mode has
\* assigned one index, as for a call reported twice with the same call id.
C40_OneWebSearchCall ==
    [][ \A item \in IdlessWebSearchItems :
          (ReportedOnce(item) /\ OnOutputItemDone(item) /\ AggOnOutputItem(item)) =>
              /\ Len(tool_calls') = 1
              /\ next_tool_index' = 1
      ]_vars

====
